---- MODULE Spec2Model ----
(***************************************************************************)
(* Verification model of the instrument shell (lab_instruments/repl.py):   *)
(* the device registry and discovery naming, the bulk state controller and *)
(* the one-shot shutdown routine, the bare-type device resolver, the       *)
(* command router (chaining, inline repeat, channel fan-out) and the       *)
(* script expander.                                                        *)
(***************************************************************************)
EXTENDS Integers, Sequences, FiniteSets, TLC

VARIABLES
    ps,              \* process position: "running" | "atexit" | "terminated"
    devices,         \* self.devices: registry, a sequence of entries in dict order
    selected,        \* self.selected
    cleanupDone,     \* self._cleanup_done
    handlers,        \* atexit hook and SIGINT/SIGTERM handlers are registered
    pass,            \* bulk pass in progress or just finished (NoPass when none yet)
    visited,         \* names visited by the loop of the current pass, in order
    calls,           \* driver calls issued by the current pass, in order
    reported,        \* names against which the current pass printed an error
    shutdownPasses,  \* number of _safe_all passes started by the shutdown routine
    hookCalls,       \* number of invocations of _cleanup_on_exit/_cleanup_on_interrupt
    exitKind,        \* how the process ended: "none" | "exit" | "signal"
    rin,             \* router/resolver input: registry, line, device type
    rout,            \* router/resolver output of the last operation applied
    xin,             \* expander input: script store, entry script, parameters
    xout,            \* expander output of the last expansion
    ein,             \* evaluator input under check (Idle when none)
    eout,            \* what _safe_eval returned or raised for ein
    measurements,    \* self.measurements: the measurement log, in order
    lcmd,            \* the last command run against the log, with what it saw
    din,             \* a device command under check: registry, arguments, outputs
    dout             \* the driver calls the command made and what they left

shellVars  == <<ps, devices, selected, cleanupDone, handlers, pass, visited,
                calls, reported, shutdownPasses, hookCalls, exitKind>>
routerVars == <<rin, rout>>
expandVars == <<xin, xout>>
evalVars   == <<ein, eout>>
logVars    == <<measurements, lcmd>>
driverVars == <<din, dout>>
vars       == <<shellVars, routerVars, expandVars, evalVars, logVars, driverVars>>

None   == "None"
NoPass == [op |-> "none", kind |-> "none", idx |-> 0, regs |-> <<>>, fin |-> TRUE]
Idle   == [kind |-> "idle"]

\* ---------------------------------------------------------------------------
\* Bounds
\* ---------------------------------------------------------------------------
MaxBench   == 3     \* VISA resources answering one scan
MaxHookCalls == 3   \* invocations of the shutdown hooks followed in one process
MaxRouterBench == 2 \* resources behind a registry handed to the router
MaxChunks  == 2     \* commands in one ;-chain of an input line
MaxCount   == 2     \* largest repeat count of an input line
MaxChain   == 12    \* scripts in a chain of nested calls, after the first
MaxCycle   == 1     \* scripts in a cycle of nested calls, after the first
MaxValues  == 3     \* value tokens of one for line
MaxLines   == 3     \* lines of a script without directives

\* ---------------------------------------------------------------------------
\* Sequence helpers
\* ---------------------------------------------------------------------------
Range(s) == {s[i] : i \in 1..Len(s)}

SeqsUpTo(S, n) == UNION {[1..k -> S] : k \in 0..n}

RECURSIVE ConcatAll(_)
ConcatAll(ss) == IF ss = <<>> THEN <<>> ELSE Head(ss) \o ConcatAll(Tail(ss))

\* index of the first element of s satisfying membership in S, 0 when none
FirstIn(s, S) ==
    IF \E i \in 1..Len(s) : s[i] \in S
    THEN CHOOSE i \in 1..Len(s) : s[i] \in S /\ \A j \in 1..(i-1) : s[j] \notin S
    ELSE 0

\* ---------------------------------------------------------------------------
\* Driver classes and discovery naming
\* ---------------------------------------------------------------------------
\* InstrumentDiscovery.MODEL_MAP: identification key -> driver class
MODEL_MAP ==
    [k \in {"4063", "MSO2024", "DHO804", "E3631A", "34401A", "MPS-6010H-1C",
            "XDM1041", "JDS6600", "EDU33212A"} |->
        CASE k = "4063"         -> "BK_4063"
          [] k = "MSO2024"      -> "Tektronix_MSO2024"
          [] k = "DHO804"       -> "Rigol_DHO804"
          [] k = "E3631A"       -> "HP_E3631A"
          [] k = "34401A"       -> "HP_34401A"
          [] k = "MPS-6010H-1C" -> "MATRIX_MPS6010H"
          [] k = "XDM1041"      -> "Owon_XDM1041"
          [] k = "JDS6600"      -> "JDS6600_Generator"
          [] k = "EDU33212A"    -> "Keysight_EDU33212A"]

\* InstrumentDiscovery.NAME_MAP: identification key -> generic type name
NAME_MAP ==
    [k \in DOMAIN MODEL_MAP |->
        CASE k \in {"4063", "JDS6600", "EDU33212A"} -> "awg"
          [] k \in {"MSO2024", "DHO804"}            -> "scope"
          [] k \in {"E3631A", "MPS-6010H-1C"}       -> "psu"
          [] k \in {"34401A", "XDM1041"}            -> "dmm"]

\* f"{generic}{idx + 1}" for the indices the bounded bench can produce
Numbered ==
    [t \in {"psu", "awg", "dmm", "scope"} |->
        CASE t = "psu"   -> <<"psu1", "psu2", "psu3", "psu4">>
          [] t = "awg"   -> <<"awg1", "awg2", "awg3", "awg4">>
          [] t = "dmm"   -> <<"dmm1", "dmm2", "dmm3", "dmm4">>
          [] t = "scope" -> <<"scope1", "scope2", "scope3", "scope4">>]

\* re.sub(r'\d+$', '', name): the name with its trailing digits stripped
BaseType(name) ==
    IF \E t \in DOMAIN Numbered : name \in Range(Numbered[t])
    THEN CHOOSE t \in DOMAIN Numbered : name \in Range(Numbered[t])
    ELSE name

\* name.startswith(prefix) over the registry names of the model
StartsWith(name, prefix) == BaseType(name) = prefix

\* re.compile(rf'^{type}\d*$').match(name)
PatternMatch(type, name) == BaseType(name) = type

Entry(n, c) == [name |-> n, cls |-> c]

Names(reg) == [i \in 1..Len(reg) |-> reg[i].name]

InReg(name, reg) == \E i \in 1..Len(reg) : reg[i].name = name

\* self.devices[name] (the driver class stands for the handle)
ClassOf(name, reg) == (CHOOSE i \in 1..Len(reg) : reg[i].name = name)
ClsOf(name, reg) == reg[ClassOf(name, reg)].cls

\* type_counts after the resource loop: every identified resource counts,
\* whether or not its driver then connected
RECURSIVE TypeCount(_, _)
TypeCount(bench, t) ==
    IF bench = <<>> THEN 0
    ELSE (IF NAME_MAP[Head(bench).model] = t THEN 1 ELSE 0) + TypeCount(Tail(bench), t)

\* generic types in order of first appearance (insertion order of type_counts)
RECURSIVE TypeOrder(_, _)
TypeOrder(bench, seen) ==
    IF bench = <<>> THEN <<>>
    ELSE LET t == NAME_MAP[Head(bench).model] IN
         IF t \in seen THEN TypeOrder(Tail(bench), seen)
         ELSE <<t>> \o TypeOrder(Tail(bench), seen \cup {t})

\* the resources of generic type t, in scan order (temp keys __t_0, __t_1, ...)
RECURSIVE OfType(_, _)
OfType(bench, t) ==
    IF bench = <<>> THEN <<>>
    ELSE (IF NAME_MAP[Head(bench).model] = t THEN <<Head(bench)>> ELSE <<>>)
         \o OfType(Tail(bench), t)

\* the rename loop for one generic type
FinalOfType(bench, t) ==
    LET found == OfType(bench, t)
        total == TypeCount(bench, t)
        one(i) == IF ~found[i].ok THEN <<>>
                  ELSE <<Entry(IF total = 1 THEN t ELSE Numbered[t][i],
                               MODEL_MAP[found[i].model])>>
    IN ConcatAll([i \in 1..Len(found) |-> one(i)])

\* InstrumentDiscovery.scan: the registry returned for a bench of resources
Discover(bench) ==
    LET order == TypeOrder(bench, {})
    IN ConcatAll([k \in 1..Len(order) |-> FinalOfType(bench, order[k])])

\* identified resources a scan may meet: model key and whether connect() succeeds
BenchEntries ==
    {[model |-> m, ok |-> TRUE] :
        m \in {"E3631A", "JDS6600", "DHO804", "34401A"}}
    \cup {[model |-> "MPS-6010H-1C", ok |-> FALSE]}

Benches == SeqsUpTo(BenchEntries, MaxBench)

ScanResults == {Discover(b) : b \in Benches}

\* hasattr(dev, method) for the lifecycle methods the state controller probes
HasAttr(cls, method) ==
    CASE method = "reset" -> TRUE
      [] method = "disable_all_channels" ->
            cls \in {"BK_4063", "Keysight_EDU33212A", "HP_E3631A", "Tektronix_MSO2024"}
      [] method = "enable_all_channels" -> cls = "Tektronix_MSO2024"
      [] method = "enable_output" ->
            cls \in {"BK_4063", "Keysight_EDU33212A", "HP_E3631A", "MATRIX_MPS6010H",
                     "JDS6600_Generator"}
      [] method = "stop" -> cls \in {"Tektronix_MSO2024", "Rigol_DHO804"}
      [] method = "disable_channel" -> cls \in {"Rigol_DHO804", "Tektronix_MSO2024"}
      [] method = "CHANNEL_MAP" ->
            cls \in {"BK_4063", "Keysight_EDU33212A", "HP_E3631A", "Tektronix_MSO2024"}
      [] OTHER -> FALSE

\* enable_output accepts the keywords ch1=, ch2= (otherwise the call is a TypeError)
AcceptsChKeywords(cls) == cls = "JDS6600_Generator"

\* ---------------------------------------------------------------------------
\* State controller: the driver calls one loop iteration makes for a device
\* ---------------------------------------------------------------------------
\* a driver call whose exception reaches the per-device handler
Raising(m) == [m |-> m, swallow |-> FALSE]
\* a driver call wrapped in its own try/except: pass
Swallowed(m) == [m |-> m, swallow |-> TRUE]

IsAwgName(name) == StartsWith(name, "awg") \/ name = "dds"

\* for ch in range(1, 5): try: dev.disable_channel(ch) except Exception: pass
PerChannelDisable ==
    <<Swallowed("disable_channel(1)"), Swallowed("disable_channel(2)"),
      Swallowed("disable_channel(3)"), Swallowed("disable_channel(4)")>>

\* body of the loop of _safe_all
SafePlan(name, cls) ==
    IF StartsWith(name, "psu") THEN
        IF HasAttr(cls, "disable_all_channels") THEN <<Raising("disable_all_channels")>>
        ELSE IF HasAttr(cls, "enable_output") THEN <<Raising("enable_output(False)")>>
        ELSE <<>>
    ELSE IF IsAwgName(name) THEN
        IF HasAttr(cls, "disable_all_channels") THEN <<Raising("disable_all_channels")>>
        ELSE IF HasAttr(cls, "enable_output")
             THEN <<Raising("enable_output(ch1=False,ch2=False)")>>
        ELSE <<>>
    ELSE IF StartsWith(name, "scope") THEN
        (IF HasAttr(cls, "stop") THEN <<Raising("stop")>> ELSE <<>>)
        \o (IF HasAttr(cls, "disable_all_channels") THEN <<Raising("disable_all_channels")>>
            ELSE IF HasAttr(cls, "disable_channel") THEN PerChannelDisable
            ELSE <<>>)
    ELSE IF StartsWith(name, "dmm") THEN
        IF HasAttr(cls, "reset") THEN <<Raising("reset")>> ELSE <<>>
    ELSE <<>>

\* body of the loop of _off_all
OffPlan(name, cls) ==
    IF StartsWith(name, "psu") THEN
        IF HasAttr(cls, "enable_output") THEN <<Raising("enable_output(False)")>> ELSE <<>>
    ELSE IF IsAwgName(name) THEN
        IF HasAttr(cls, "disable_all_channels") THEN <<Raising("disable_all_channels")>>
        ELSE IF HasAttr(cls, "enable_output")
             THEN <<Raising("enable_output(ch1=False,ch2=False)")>>
        ELSE <<>>
    ELSE IF StartsWith(name, "scope") THEN
        (IF HasAttr(cls, "stop") THEN <<Raising("stop")>> ELSE <<>>)
        \o (IF HasAttr(cls, "disable_all_channels") THEN <<Raising("disable_all_channels")>>
            ELSE IF HasAttr(cls, "disable_channel") THEN PerChannelDisable
            ELSE <<>>)
    ELSE IF StartsWith(name, "dmm") THEN
        IF HasAttr(cls, "reset") THEN <<Raising("reset")>> ELSE <<>>
    ELSE <<>>

\* body of the loop of _on_all
OnPlan(name, cls) ==
    IF StartsWith(name, "psu") THEN
        IF HasAttr(cls, "enable_output") THEN <<Raising("enable_output(True)")>> ELSE <<>>
    ELSE IF IsAwgName(name) THEN
        IF ~HasAttr(cls, "enable_output") THEN <<>>
        ELSE IF AcceptsChKeywords(cls) THEN <<Raising("enable_output(ch1=True,ch2=True)")>>
        ELSE <<Raising("enable_output(1,True)"), Raising("enable_output(2,True)")>>
    ELSE IF StartsWith(name, "scope") THEN
        IF HasAttr(cls, "enable_all_channels") THEN <<Raising("enable_all_channels")>>
        ELSE <<>>
    ELSE <<>>

\* body of the loop of _reset_all
ResetPlan(name, cls) == <<Raising("reset")>>

Plan(op, name, cls) ==
    CASE op = "safe"  -> SafePlan(name, cls)
      [] op = "off"   -> OffPlan(name, cls)
      [] op = "on"    -> OnPlan(name, cls)
      [] op = "reset" -> ResetPlan(name, cls)

\* f = 0: no driver call raises; f = k: the k-th call of the plan raises
Raised(plan, f) == f > 0 /\ ~plan[f].swallow

\* the calls the iteration issues: all of them, or those up to the raising one
Issued(plan, f) == IF Raised(plan, f) THEN SubSeq(plan, 1, f) ELSE plan

\* a loop that a raising device cuts short
AfterVisitAbort(idx, raised, n) == IF raised THEN n + 1 ELSE idx + 1

\* the loop index after one iteration: the except clause falls through to the
\* next device
AfterVisit(idx, raised, n) == idx + 1

NewPass(op, kind, regs) ==
    [op |-> op, kind |-> kind, idx |-> 1, regs |-> regs, fin |-> FALSE]

\* the guard without its one-shot flag
CleanupGuardNoFlag(done, regs) == regs # <<>>

\* guard of _cleanup_on_exit and _cleanup_on_interrupt
CleanupGuard(done, regs) == ~done /\ regs # <<>>

\* scan(): the pointer moves to the first key only when the new registry is
\* non-empty and does not hold it
SelectedAfterScan(sel, reg) ==
    IF reg # <<>> /\ ~InReg(sel, reg) THEN reg[1].name ELSE sel

\* ---------------------------------------------------------------------------
\* Device resolution
\* ---------------------------------------------------------------------------
DeviceTypes == {"psu", "awg", "dmm", "scope"}

\* candidates = [name for name in self.devices if pattern.match(name)], then
\* the legacy key 'dds' appended for type 'awg'
Candidates(reg, type) ==
    LET names   == Names(reg)
        matched == SelectSeq(names, LAMBDA n : PatternMatch(type, n))
    IN IF type = "awg" /\ InReg("dds", reg) /\ "dds" \notin Range(matched)
       THEN Append(matched, "dds")
       ELSE matched

\* a resolver that guesses the first of several candidates
PickFirstCandidate(cands) == IF cands = <<>> THEN None ELSE cands[1]

\* what _resolve_device_type returns for a candidate list
PickCandidate(cands) ==
    IF cands = <<>> THEN None
    ELSE IF Len(cands) = 1 THEN cands[1]
    ELSE None

\* InstrumentRepl._resolve_device_type
ResolveDeviceType(reg, type, ov) ==
    IF ov # None /\ InReg(ov, reg) THEN ov
    ELSE PickCandidate(Candidates(reg, type))

\* _get_device(name) for a resolved name: the name when registered
GetDevice(reg, name) ==
    IF reg = <<>> THEN None
    ELSE IF ~InReg(name, reg) THEN None
    ELSE name

\* preamble of do_psu/do_awg/do_dmm/do_scope: the registry entry the handler
\* goes on to operate, None when it returns before touching any device
HandlerTarget(reg, type, ov) ==
    LET name == ResolveDeviceType(reg, type, ov)
    IN IF name = None THEN None ELSE GetDevice(reg, name)

\* ---------------------------------------------------------------------------
\* Command router
\* ---------------------------------------------------------------------------
\* str.lower() over the tokens of the model
Lower(t) ==
    CASE t = "ALL"       -> "all"
      [] t = "REPEAT"    -> "repeat"
      [] t = "REPEATALL" -> "repeatall"
      [] t = "SET"       -> "set"
      [] t = "CALL"      -> "call"
      [] t = "FOR"       -> "for"
      [] t = "END"       -> "end"
      [] OTHER           -> t

IntTokens == {"-1", "0", "1", "2", "3"}

\* int(token); tokens outside IntTokens raise ValueError
IntOf(t) ==
    CASE t = "-1" -> 0 - 1
      [] t = "0"  -> 0
      [] t = "1"  -> 1
      [] t = "2"  -> 2
      [] t = "3"  -> 3

\* channel keys: Python ints and Python strings
IntKey(n) == [int |-> n]
StrKey(text) == [str |-> text]
IsIntKey(k) == DOMAIN k = {"int"}

\* str(ch) of a channel key
Str(k) == IF IsIntKey(k) THEN <<"1", "2", "3", "4">>[k.int] ELSE k.str

\* Python's < on the string keys of HP_E3631A.CHANNEL_MAP (character order:
\* 'n' < 'p', "positive_2..." < "positive_6...")
StrRank(text) ==
    CASE text = "negative_25_volts_channel" -> 1
      [] text = "positive_25_volts_channel" -> 2
      [] text = "positive_6_volts_channel"  -> 3

\* Python's < between two keys of one CHANNEL_MAP
KeyLess(a, b) ==
    IF IsIntKey(a) /\ IsIntKey(b) THEN a.int < b.int
    ELSE IF ~IsIntKey(a) /\ ~IsIntKey(b) THEN StrRank(a.str) < StrRank(b.str)
    ELSE FALSE

\* dev.CHANNEL_MAP.keys(), in the order the class body writes them
ChannelMapKeys(cls) ==
    CASE cls \in {"BK_4063", "Keysight_EDU33212A"} -> <<IntKey(1), IntKey(2)>>
      [] cls = "Tektronix_MSO2024" -> <<IntKey(1), IntKey(2), IntKey(3), IntKey(4)>>
      [] cls = "HP_E3631A" ->
            <<StrKey("positive_6_volts_channel"), StrKey("positive_25_volts_channel"),
              StrKey("negative_25_volts_channel")>>

\* insertion of one key into an ascending list
RECURSIVE InsertKey(_, _)
InsertKey(k, sorted) ==
    IF sorted = <<>> THEN <<k>>
    ELSE IF KeyLess(k, Head(sorted)) THEN <<k>> \o sorted
    ELSE <<Head(sorted)>> \o InsertKey(k, Tail(sorted))

\* sorted(keys)
RECURSIVE SortedKeys(_)
SortedKeys(keys) ==
    IF keys = <<>> THEN <<>> ELSE InsertKey(Head(keys), SortedKeys(Tail(keys)))

\* InstrumentRepl._channels_for_device; the empty list stands for None
ChannelsForDevice(cls, base_type) ==
    IF HasAttr(cls, "CHANNEL_MAP") THEN SortedKeys(ChannelMapKeys(cls))
    ELSE IF base_type = "scope" THEN <<IntKey(1), IntKey(2), IntKey(3), IntKey(4)>>
    ELSE IF base_type = "psu" THEN
        IF cls = "HP_E3631A" THEN <<IntKey(1), IntKey(2), IntKey(3)>> ELSE <<IntKey(1)>>
    ELSE IF cls = "JDS6600_Generator" THEN <<IntKey(1), IntKey(2)>>
    ELSE <<>>

Result(stop, log) == [stop |-> stop, log |-> log]
CmdEvent(line, target) == [ev |-> "cmd", line |-> line, target |-> target]
SingleEvent(line) == [ev |-> "single", line |-> line, target |-> None]

\* a default() that calls the handler without pre-selecting the device
DefaultTargetNoOverride(reg, line) ==
    LET cmd_token == line[1]
        base_type == BaseType(cmd_token)
    IN IF InReg(cmd_token, reg) /\ base_type \in DeviceTypes
       THEN HandlerTarget(reg, base_type, None)
       ELSE None

\* InstrumentRepl.default: a registered name whose base type has a handler
\* runs that handler with the override set
DefaultTarget(reg, line) ==
    LET cmd_token == line[1]
        base_type == BaseType(cmd_token)
    IN IF InReg(cmd_token, reg) /\ base_type \in DeviceTypes
       THEN HandlerTarget(reg, base_type, cmd_token)
       ELSE None

\* cmd.Cmd.onecmd: the handler of the first token runs; only exit, quit and
\* EOF return a true stop flag; an empty line with no last command does nothing
SuperOneCmd(reg, ov, line) ==
    IF line = <<>> THEN Result(FALSE, <<>>)
    ELSE IF line[1] \in {"exit", "quit", "EOF"} THEN Result(TRUE, <<CmdEvent(line, None)>>)
    ELSE IF line[1] \in DeviceTypes
         THEN Result(FALSE, <<CmdEvent(line, HandlerTarget(reg, line[1], ov))>>)
    ELSE IF line[1] \in {"list", "status"} THEN Result(FALSE, <<CmdEvent(line, None)>>)
    ELSE Result(FALSE, <<CmdEvent(line, DefaultTarget(reg, line))>>)

\* for _ in range(count): if <run>: return True -- for a run whose outcome is r
RECURSIVE RepeatRun(_, _)
RepeatRun(count, r) ==
    IF count <= 0 THEN Result(FALSE, <<>>)
    ELSE IF r.stop THEN r
    ELSE LET rest == RepeatRun(count - 1, r)
         IN Result(rest.stop, r.log \o rest.log)

\* the device whose channel list the fan-out of 'all' uses, None when no
\* registry entry is found
FanoutDevice(reg, ov, cmd_token, base_type) ==
    IF ov # None /\ InReg(ov, reg) THEN ov
    ELSE IF InReg(cmd_token, reg) THEN cmd_token
    ELSE LET k == FirstIn([i \in 1..Len(reg) |-> PatternMatch(base_type, reg[i].name)],
                          {TRUE})
         IN IF k # 0 THEN reg[k].name
            ELSE IF base_type = "awg" /\ InReg("dds", reg) THEN "dds"
            ELSE None

\* the line re-issued for channel ch: the first 'all' token replaced
FanoutLine(tokens, all_idx, ch) == [tokens EXCEPT ![all_idx] = Str(ch)]

\* a fan-out that returns after its first channel
FanoutRunFirstOnly(reg, ov, tokens, all_idx, channels) ==
    SuperOneCmd(reg, ov, FanoutLine(tokens, all_idx, Head(channels)))

\* for ch in channels: if super().onecmd(...): return True
RECURSIVE FanoutRun(_, _, _, _, _)
FanoutRun(reg, ov, tokens, all_idx, channels) ==
    IF channels = <<>> THEN Result(FALSE, <<>>)
    ELSE LET r == SuperOneCmd(reg, ov, FanoutLine(tokens, all_idx, Head(channels)))
         IN IF r.stop THEN r
            ELSE LET rest == FanoutRun(reg, ov, tokens, all_idx, Tail(channels))
                 IN Result(rest.stop, r.log \o rest.log)

\* InstrumentRepl._onecmd_single, after its call is recorded
OnecmdSingleBody(reg, ov, tokens) ==
    IF Len(tokens) >= 3 /\ Lower(tokens[1]) = "repeat" THEN
        IF tokens[2] \notin IntTokens THEN SuperOneCmd(reg, ov, tokens)
        ELSE RepeatRun(IntOf(tokens[2]),
                       SuperOneCmd(reg, ov, SubSeq(tokens, 3, Len(tokens))))
    ELSE
        LET all_idx   == FirstIn([i \in 1..Len(tokens) |-> Lower(tokens[i])], {"all"})
            cmd_token == IF tokens = <<>> THEN "" ELSE Lower(tokens[1])
            base_type == BaseType(cmd_token)
            dev       == FanoutDevice(reg, ov, cmd_token, base_type)
            channels  == ChannelsForDevice(ClsOf(dev, reg), base_type)
        IN IF /\ all_idx # 0
              /\ base_type \in {"awg", "scope", "psu", "dds"}
              /\ dev # None
              /\ channels # <<>>
           THEN FanoutRun(reg, ov, tokens, all_idx, channels)
           ELSE SuperOneCmd(reg, ov, tokens)

OnecmdSingle(reg, ov, tokens) ==
    LET r == OnecmdSingleBody(reg, ov, tokens)
    IN Result(r.stop, <<SingleEvent(tokens)>> \o r.log)

\* the non-empty chunks of line.split(";")
RECURSIVE Chunks(_)
Chunks(tokens) ==
    IF tokens = <<>> THEN <<>>
    ELSE LET k == FirstIn(tokens, {";"})
         IN IF k = 0 THEN <<tokens>>
            ELSE (IF k = 1 THEN <<>> ELSE <<SubSeq(tokens, 1, k - 1)>>)
                 \o Chunks(SubSeq(tokens, k + 1, Len(tokens)))

\* for chunk in line.split(";"): ... if self._onecmd_single(cmd_line): break
RECURSIVE ChainRun(_, _, _)
ChainRun(reg, ov, chunks) ==
    IF chunks = <<>> THEN Result(FALSE, <<>>)
    ELSE LET r == OnecmdSingle(reg, ov, Head(chunks))
         IN IF r.stop THEN r
            ELSE LET rest == ChainRun(reg, ov, Tail(chunks))
                 IN Result(rest.stop, r.log \o rest.log)

\* while remainder and remainder[0] == ";": remainder = remainder[1:]
RECURSIVE StripSemis(_)
StripSemis(tokens) ==
    IF tokens # <<>> /\ Head(tokens) = ";" THEN StripSemis(Tail(tokens)) ELSE tokens

\* a remainder that runs even after the body asked to leave the shell
ThenRemainderAlways(body_runs, remainder_run) ==
    Result(body_runs.stop \/ remainder_run.stop, body_runs.log \o remainder_run.log)

\* the body runs, then the remainder: the loop returns True at the first
\* stopping run, otherwise onecmd(remainder) decides
ThenRemainder(body_runs, remainder_run) ==
    IF body_runs.stop THEN body_runs
    ELSE Result(remainder_run.stop, body_runs.log \o remainder_run.log)

\* InstrumentRepl.onecmd
RECURSIVE Onecmd(_, _, _)
Onecmd(reg, ov, tokens) ==
    LET n          == Len(tokens)
        repeat_all == "repeatall" \in Range(tokens)
        idx        == IF repeat_all THEN FirstIn(tokens, {"repeatall"})
                      ELSE FirstIn(tokens, {"repeat"})
        after      == SubSeq(tokens, idx + 2, n)
        has_end    == idx # 0 /\ idx + 2 <= n /\ "end" \in Range(after)
        end_idx    == idx + 1 + FirstIn(after, {"end"})
        count_ok   == idx # 0 /\ idx + 1 <= n /\ tokens[idx + 1] \in IntTokens
        count      == IntOf(tokens[idx + 1])
        remainder  == StripSemis(SubSeq(tokens, end_idx + 1, n))
        rest       ==
            IF n >= 3 /\ Lower(tokens[1]) = "repeatall" THEN
                IF tokens[2] \notin IntTokens THEN SuperOneCmd(reg, ov, tokens)
                ELSE RepeatRun(IntOf(tokens[2]),
                               SuperOneCmd(reg, ov, SubSeq(tokens, 3, n)))
            ELSE IF ";" \in Range(tokens) THEN ChainRun(reg, ov, Chunks(tokens))
            ELSE OnecmdSingle(reg, ov, tokens)
    IN IF has_end /\ count_ok THEN
           ThenRemainder(
               RepeatRun(count, Onecmd(reg, ov, SubSeq(tokens, idx + 2, end_idx - 1))),
               IF remainder # <<>> THEN Onecmd(reg, ov, remainder)
               ELSE Result(FALSE, <<>>))
       ELSE IF ~has_end /\ repeat_all /\ count_ok THEN
           RepeatRun(count, Onecmd(reg, ov, SubSeq(tokens, idx + 2, n)))
       ELSE rest

\* ---------------------------------------------------------------------------
\* Script expander
\* ---------------------------------------------------------------------------
\* A text (script line, variable value, output line) is a sequence of atoms;
\* the atom " " is whitespace, the atoms "=" and "," are those characters, an
\* atom "${x}" is a reference to the variable x, and every other atom is a
\* run of characters without whitespace or quotes.  A token is a non-empty
\* sequence of atoms other than " ".

\* the call depth beyond which expansion is refused (if depth > 10)
MaxCallDepth == 10

\* "${name}" for the one-atom names of the model
RefOf(name) ==
    CASE name = <<"i">> -> "${i}"
      [] name = <<"x">> -> "${x}"
      [] name = <<"a">> -> "${a}"
      [] name = <<"b">> -> "${b}"
      [] name = <<"v">> -> "${v}"
      [] name = <<"w">> -> "${w}"
      [] name = <<"y">> -> "${y}"
      [] name = <<"z">> -> "${z}"
      [] OTHER -> "${}"

\* str.strip()
RECURSIVE LStrip(_)
LStrip(text) == IF text # <<>> /\ Head(text) = " " THEN LStrip(Tail(text)) ELSE text

RECURSIVE RStrip(_)
RStrip(text) ==
    IF text # <<>> /\ text[Len(text)] = " " THEN RStrip(SubSeq(text, 1, Len(text) - 1))
    ELSE text

Strip(text) == RStrip(LStrip(text))

\* text.split(sep) for a one-atom separator: the parts, empty ones included
RECURSIVE SplitOn(_, _)
SplitOn(text, sep) ==
    LET k == FirstIn(text, {sep})
    IN IF k = 0 THEN <<text>>
       ELSE <<SubSeq(text, 1, k - 1)>> \o SplitOn(SubSeq(text, k + 1, Len(text)), sep)

\* shlex.split(text): the atom "\"" is a double quote.  The scan keeps the
\* token under construction (cur, begun once a quote or another atom opened
\* it) and whether it is inside quotes; a space outside quotes ends the
\* token, a quote is dropped, and a text that ends inside quotes raises
\* ValueError (tokens = None).
RECURSIVE ShlexScan(_, _, _, _, _)
ShlexScan(text, quoted, begun, cur, tokens) ==
    IF text = <<>> THEN
        IF quoted THEN None
        ELSE IF begun THEN Append(tokens, cur) ELSE tokens
    ELSE CASE Head(text) = "\"" -> ShlexScan(Tail(text), ~quoted, TRUE, cur, tokens)
           [] Head(text) = " " /\ ~quoted ->
                 IF begun THEN ShlexScan(Tail(text), FALSE, FALSE, <<>>, Append(tokens, cur))
                 ELSE ShlexScan(Tail(text), FALSE, FALSE, <<>>, tokens)
           [] OTHER -> ShlexScan(Tail(text), quoted, TRUE, Append(cur, Head(text)), tokens)

\* shlex.split(text) raises "No closing quotation"
ShlexRaises(text) == ShlexScan(text, FALSE, FALSE, <<>>, <<>>) = None

\* the tokens shlex.split(text) returns when it returns
ShlexSplit(text) == ShlexScan(text, FALSE, FALSE, <<>>, <<>>)

\* " ".join(tokens)
RECURSIVE JoinSpace(_)
JoinSpace(tokens) ==
    IF tokens = <<>> THEN <<>>
    ELSE IF Len(tokens) = 1 THEN tokens[1]
    ELSE tokens[1] \o <<" ">> \o JoinSpace(Tail(tokens))

\* text.replace(ref, value)
RECURSIVE Replace(_, _, _)
Replace(text, ref, value) ==
    IF text = <<>> THEN <<>>
    ELSE (IF Head(text) = ref THEN value ELSE <<Head(text)>>)
         \o Replace(Tail(text), ref, value)

\* InstrumentRepl._substitute_vars: one replace per binding, in dict order
RECURSIVE SubstituteVars(_, _)
SubstituteVars(text, env) ==
    IF env = <<>> THEN text
    ELSE SubstituteVars(Replace(text, RefOf(Head(env).k), Head(env).v), Tail(env))

\* variables[key] = value on a dict kept in insertion order
Bind(env, key, value) ==
    IF \E i \in 1..Len(env) : env[i].k = key
    THEN [i \in 1..Len(env) |-> IF env[i].k = key THEN [k |-> key, v |-> value] ELSE env[i]]
    ELSE Append(env, [k |-> key, v |-> value])

\* first token of a line, lower-cased, when it is a plain word
HeadWord(tokens) ==
    IF tokens # <<>> /\ Len(tokens[1]) = 1 THEN Lower(tokens[1][1]) ELSE ""

\* a test that lets comment lines through
IsBlankOnly(line) == line = <<>>

IsBlankOrComment(line) == line = <<>> \/ line[1] = "#"

\* ---------------------------------------------------------------------------
\* Expression evaluator
\* ---------------------------------------------------------------------------
\* Python values: an int, float or bool is a fraction n/d in lowest terms
\* with d > 0 (a float stands for the real number it approximates); the
\* other values are the four allowed functions, dictionaries, strings, None.
RECURSIVE Gcd(_, _)
Gcd(a, b) == IF b = 0 THEN a ELSE Gcd(b, a % b)

Abs(n) == IF n < 0 THEN 0 - n ELSE n

RECURSIVE Power(_, _)
Power(b, e) == IF e <= 0 THEN 1 ELSE b * Power(b, e - 1)

Number(t, n, d) ==
    LET g  == Gcd(Abs(n), Abs(d))
        sg == IF d < 0 THEN 0 - 1 ELSE 1
    IN [t |-> t, n |-> (sg * n) \div g, d |-> Abs(d) \div g]

IntV(n) == [t |-> "int", n |-> n, d |-> 1]
FloatV(n, d) == Number("float", n, d)
BoolV(b) == [t |-> "bool", n |-> IF b THEN 1 ELSE 0, d |-> 1]
FuncV(f) == [t |-> "func", f |-> f]
DictV(map) == [t |-> "dict", map |-> map]
StrV(text) == [t |-> "str", s |-> text]
NoneV == [t |-> "none"]

IsNumber(v) == v.t \in {"int", "float", "bool"}

\* isinstance(value, (int, float)): bool is a subclass of int
IsIntOrFloat(v) == v.t \in {"int", "float", "bool"}

Ok(v) == [ok |-> TRUE, val |-> v]
Raise(e) == [ok |-> FALSE, err |-> e]

\* the type of the result of + - * % on two numbers
Wider(a, b) == IF a.t = "float" \/ b.t = "float" THEN "float" ELSE "int"

\* floor(n / d) for d > 0
Floor(n, d) == n \div d

Less(a, b) == a.n * b.d < b.n * a.d

\* Python's binary operators on two values
Add(a, b) ==
    IF IsNumber(a) /\ IsNumber(b) THEN Ok(Number(Wider(a, b), a.n * b.d + b.n * a.d, a.d * b.d))
    ELSE Raise("TypeError")

Sub(a, b) ==
    IF IsNumber(a) /\ IsNumber(b) THEN Ok(Number(Wider(a, b), a.n * b.d - b.n * a.d, a.d * b.d))
    ELSE Raise("TypeError")

Mult(a, b) ==
    IF IsNumber(a) /\ IsNumber(b) THEN Ok(Number(Wider(a, b), a.n * b.n, a.d * b.d))
    ELSE Raise("TypeError")

Div(a, b) ==
    IF ~(IsNumber(a) /\ IsNumber(b)) THEN Raise("TypeError")
    ELSE IF b.n = 0 THEN Raise("ZeroDivisionError")
    ELSE Ok(Number("float", a.n * b.d, a.d * b.n))

\* a % b = a - b * floor(a / b)
Mod(a, b) ==
    IF ~(IsNumber(a) /\ IsNumber(b)) THEN Raise("TypeError")
    ELSE IF b.n = 0 THEN Raise("ZeroDivisionError")
    ELSE LET qn == a.n * b.d
             qd == a.d * b.n
             q  == IF qd > 0 THEN Floor(qn, qd) ELSE Floor(0 - qn, 0 - qd)
         IN Ok(Number(Wider(a, b), a.n * b.d - q * b.n * a.d, a.d * b.d))

\* a ** b for an exponent that is a whole number up to MaxPower and a base
\* n/d with n and d up to MaxBase; other powers are not evaluated by the
\* model
MaxPower == 6
MaxBase == 16

Pow(a, b) ==
    IF ~(IsNumber(a) /\ IsNumber(b)) THEN Raise("TypeError")
    ELSE IF b.d # 1 THEN Raise("Unmodelled")
    ELSE IF Abs(b.n) > MaxPower \/ Abs(a.n) > MaxBase \/ a.d > MaxBase
         THEN Raise("Unmodelled")
    ELSE IF b.n >= 0 THEN Ok(Number(Wider(a, b), Power(a.n, b.n), Power(a.d, b.n)))
    ELSE IF a.n = 0 THEN Raise("ZeroDivisionError")
    ELSE Ok(Number("float", Power(a.d, 0 - b.n), Power(a.n, 0 - b.n)))

\* +a and -a: a bool becomes an int
Pos(a) == IF IsNumber(a) THEN Ok(Number(Wider(a, a), a.n, a.d)) ELSE Raise("TypeError")
Neg(a) == IF IsNumber(a) THEN Ok(Number(Wider(a, a), 0 - a.n, a.d)) ELSE Raise("TypeError")

\* round(x) with one argument: the nearest int, a tie going to the even one
RoundHalfEven(a) ==
    LET f == Floor(a.n, a.d)
        r == 2 * (a.n - f * a.d)
    IN IF r < a.d THEN f
       ELSE IF r > a.d THEN f + 1
       ELSE IF f % 2 = 0 THEN f ELSE f + 1

\* the first least (greatest) of the arguments
RECURSIVE Least(_), Greatest(_)
Least(args) ==
    IF Len(args) = 1 THEN args[1]
    ELSE LET m == Least(SubSeq(args, 1, Len(args) - 1))
         IN IF Less(args[Len(args)], m) THEN args[Len(args)] ELSE m

Greatest(args) ==
    IF Len(args) = 1 THEN args[1]
    ELSE LET m == Greatest(SubSeq(args, 1, Len(args) - 1))
         IN IF Less(m, args[Len(args)]) THEN args[Len(args)] ELSE m

\* func(*args) for allowed_funcs = abs, min, max, round
Apply(f, args) ==
    LET numbers == \A i \in 1..Len(args) : IsNumber(args[i])
    IN CASE f = "abs" ->
              IF Len(args) # 1 \/ ~numbers THEN Raise("TypeError")
              ELSE Ok(Number(Wider(args[1], args[1]), Abs(args[1].n), args[1].d))
         [] f = "round" ->
              IF Len(args) = 1 /\ numbers THEN Ok(IntV(RoundHalfEven(args[1])))
              ELSE IF Len(args) = 2 /\ numbers /\ args[2].t = "float" THEN Raise("TypeError")
              ELSE IF Len(args) = 2 /\ numbers THEN Raise("Unmodelled")
              ELSE Raise("TypeError")
         [] f \in {"min", "max"} ->
              IF Len(args) = 0 THEN Raise("TypeError")
              ELSE IF Len(args) = 1
                   THEN IF args[1].t \in {"dict", "str"} THEN Raise("Unmodelled")
                        ELSE Raise("TypeError")
              ELSE IF ~numbers THEN Raise("TypeError")
              ELSE Ok(IF f = "min" THEN Least(args) ELSE Greatest(args))

\* the nodes ast.parse builds
Constant(v) == [node |-> "Constant", value |-> v]
Name(id) == [node |-> "Name", id |-> id]
BinOp(op, left, right) == [node |-> "BinOp", op |-> op, left |-> left, right |-> right]
UnaryOp(op, operand) == [node |-> "UnaryOp", op |-> op, operand |-> operand]
Subscript(value, slice) == [node |-> "Subscript", value |-> value, slice |-> slice]
Call(func, args) == [node |-> "Call", func |-> func, args |-> args]
\* Attribute, Compare, BoolOp, IfExp, ListComp, List, Tuple, Slice
OtherNode(kind) == [node |-> kind]

AllowedFuncs == {"abs", "min", "max", "round"}

\* value[key]
GetItem(value, key) ==
    IF key.t = "str" /\ key.s \in DOMAIN value.map THEN Ok(value.map[key.s])
    ELSE Raise("KeyError")

\* isinstance(node, ast.Name) in _eval
LookupName(id, names) ==
    IF id \in DOMAIN names THEN Ok(names[id])
    ELSE IF id \in AllowedFuncs THEN Ok(FuncV(id))
    ELSE Raise("ValueError")

\* a binary operator table with % computed as /
BinaryModAsDiv(op, left, right) ==
    CASE op = "Add"  -> Add(left, right)
      [] op = "Sub"  -> Sub(left, right)
      [] op = "Mult" -> Mult(left, right)
      [] op = "Div"  -> Div(left, right)
      [] op = "Pow"  -> Pow(left, right)
      [] op = "Mod"  -> Div(left, right)
      [] OTHER       -> Raise("ValueError")

\* isinstance(node, ast.BinOp) in _eval, once both operands have a value
Binary(op, left, right) ==
    CASE op = "Add"  -> Add(left, right)
      [] op = "Sub"  -> Sub(left, right)
      [] op = "Mult" -> Mult(left, right)
      [] op = "Div"  -> Div(left, right)
      [] op = "Pow"  -> Pow(left, right)
      [] op = "Mod"  -> Mod(left, right)
      [] OTHER       -> Raise("ValueError")

\* isinstance(node, ast.Constant) in _eval
ConstantValue(v) == IF IsIntOrFloat(v) THEN Ok(v) ELSE Raise("ValueError")

\* _eval of InstrumentRepl._safe_eval
RECURSIVE Eval(_, _), EvalArgs(_, _)
Eval(node, names) ==
    CASE node.node = "Constant" -> ConstantValue(node.value)
      [] node.node = "Name" -> LookupName(node.id, names)
      [] node.node = "BinOp" ->
            LET left == Eval(node.left, names) IN
            IF ~left.ok THEN left
            ELSE LET right == Eval(node.right, names) IN
                 IF ~right.ok THEN right
                 ELSE Binary(node.op, left.val, right.val)
      [] node.node = "UnaryOp" ->
            LET operand == Eval(node.operand, names) IN
            IF ~operand.ok THEN operand
            ELSE IF node.op = "UAdd" THEN Pos(operand.val)
            ELSE IF node.op = "USub" THEN Neg(operand.val)
            ELSE Raise("ValueError")
      [] node.node = "Subscript" ->
            LET value == Eval(node.value, names) IN
            IF ~value.ok THEN value
            ELSE IF value.val.t # "dict" THEN Raise("ValueError")
            ELSE IF node.slice.node = "Constant" THEN GetItem(value.val, node.slice.value)
            ELSE IF node.slice.node = "Name" THEN GetItem(value.val, StrV(node.slice.id))
            ELSE LET key == Eval(node.slice, names) IN
                 IF ~key.ok THEN key ELSE GetItem(value.val, key.val)
      [] node.node = "Call" ->
            LET func == Eval(node.func, names) IN
            IF ~func.ok THEN func
            ELSE LET args == EvalArgs(node.args, names) IN
                 IF ~args.ok THEN args
                 ELSE IF func.val.t = "func" THEN Apply(func.val.f, args.val)
                 ELSE Raise("ValueError")
      [] OTHER -> Raise("ValueError")

\* [_eval(arg) for arg in node.args]
EvalArgs(args, names) ==
    IF args = <<>> THEN Ok(<<>>)
    ELSE LET first == Eval(Head(args), names) IN
         IF ~first.ok THEN first
         ELSE LET rest == EvalArgs(Tail(args), names) IN
              IF ~rest.ok THEN rest ELSE Ok(<<first.val>> \o rest.val)

\* ---------------------------------------------------------------------------
\* ast.parse(expr, mode="eval") on the expressions of the model
\* ---------------------------------------------------------------------------
\* An expression is a text whose atoms are numbers, names, string literals,
\* operators and brackets; spaces separate and are dropped.  Two operands are
\* never written without an operator or a space between them.
\* the texts of the numbers 0..MaxNumber, of the same as floats, and of the
\* halves between them: str(n), str(float(n)), str(n + 0.5)
IntTexts ==
    <<"0", "1", "2", "3", "4", "5", "6", "7", "8", "9", "10", "11", "12", "13",
      "14", "15", "16">>

MaxNumber == Len(IntTexts) - 1

FloatTexts ==
    <<"0.0", "1.0", "2.0", "3.0", "4.0", "5.0", "6.0", "7.0", "8.0", "9.0",
      "10.0", "11.0", "12.0", "13.0", "14.0", "15.0", "16.0">>

HalfTexts ==
    <<"0.5", "1.5", "2.5", "3.5", "4.5", "5.5", "6.5", "7.5", "8.5", "9.5",
      "10.5", "11.5", "12.5", "13.5", "14.5", "15.5", "16.5">>

NegIntTexts ==
    <<"-1", "-2", "-3", "-4", "-5", "-6", "-7", "-8", "-9", "-10", "-11", "-12",
      "-13", "-14", "-15", "-16">>

NegFloatTexts ==
    <<"-0.0", "-1.0", "-2.0", "-3.0", "-4.0", "-5.0", "-6.0", "-7.0", "-8.0",
      "-9.0", "-10.0", "-11.0", "-12.0", "-13.0", "-14.0", "-15.0", "-16.0">>

NegHalfTexts ==
    <<"-0.5", "-1.5", "-2.5", "-3.5", "-4.5", "-5.5", "-6.5", "-7.5", "-8.5",
      "-9.5", "-10.5", "-11.5", "-12.5", "-13.5", "-14.5", "-15.5", "-16.5">>

\* the literals that are written without a sign
NumberLiterals ==
    [i \in 1..(MaxNumber + 1) |-> <<IntTexts[i], IntV(i - 1)>>]
    \o [i \in 1..(MaxNumber + 1) |-> <<FloatTexts[i], FloatV(i - 1, 1)>>]
    \o [i \in 1..(MaxNumber + 1) |-> <<HalfTexts[i], FloatV(2 * i - 1, 2)>>]
    \o << <<"1j", [t |-> "complex"]>> >>

\* a minus sign and the literal it is written before
NegativeNumbers ==
    [i \in 1..MaxNumber |-> <<NegIntTexts[i], IntTexts[i + 1]>>]
    \o [i \in 1..(MaxNumber + 1) |-> <<NegFloatTexts[i], FloatTexts[i]>>]
    \o [i \in 1..(MaxNumber + 1) |-> <<NegHalfTexts[i], HalfTexts[i]>>]

IsNegativeNumber(t) == \E i \in 1..Len(NegativeNumbers) : NegativeNumbers[i][1] = t

Unsigned(t) ==
    NegativeNumbers[CHOOSE i \in 1..Len(NegativeNumbers) : NegativeNumbers[i][1] = t][2]

\* the text of a number the tables above do not hold
NoText == "<number>"

\* str(value) for the value _safe_eval returned, as a text
StrOf(v) ==
    CASE v.t = "bool" -> IF v.n = 1 THEN <<"True">> ELSE <<"False">>
      [] v.t = "func" ->
            <<"<built-in", " ", "function", " ",
              (CASE v.f = "abs" -> "abs>" [] v.f = "min" -> "min>"
                 [] v.f = "max" -> "max>" [] v.f = "round" -> "round>")>>
      [] v.t = "int" ->
            IF Abs(v.n) > MaxNumber THEN <<NoText>>
            ELSE IF v.n >= 0 THEN <<IntTexts[v.n + 1]>> ELSE <<NegIntTexts[0 - v.n]>>
      [] v.t = "float" /\ v.d = 1 ->
            IF Abs(v.n) > MaxNumber THEN <<NoText>>
            ELSE IF v.n >= 0 THEN <<FloatTexts[v.n + 1]>> ELSE <<NegFloatTexts[1 - v.n]>>
      [] v.t = "float" /\ v.d = 2 ->
            IF Abs(v.n) > 2 * MaxNumber THEN <<NoText>>
            ELSE IF v.n >= 0 THEN <<HalfTexts[(v.n + 1) \div 2]>>
            ELSE <<NegHalfTexts[(1 - v.n) \div 2]>>
      [] OTHER -> <<NoText>>

StringLiterals ==
    << <<"'a'", StrV("a")>>, <<"'x'", StrV("x")>>, <<"'y'", StrV("y")>>,
       <<"'os'", StrV("os")>>, <<"\"x\"", StrV("x")>>, <<"\"os\"", StrV("os")>> >>

KeywordConstants ==
    << <<"True", BoolV(TRUE)>>, <<"False", BoolV(FALSE)>>, <<"None", NoneV>> >>

Literals == NumberLiterals \o StringLiterals \o KeywordConstants

IsLiteral(t) == \E i \in 1..Len(Literals) : Literals[i][1] = t

LiteralValue(t) == Literals[CHOOSE i \in 1..Len(Literals) : Literals[i][1] = t][2]

Keywords == {"and", "or", "not", "if", "else", "for", "in", "is", "lambda"}

Operators ==
    {"+", "-", "*", "/", "%", "**", "//", "<<", ">>", "~", "<", ">", "==",
     "(", ")", "[", "]", ",", ".", ":", "="}

IsIdentifier(t) ==
    /\ ~IsLiteral(t)
    /\ t \notin Keywords \cup Operators
    /\ ~IsNegativeNumber(t)
    /\ t \notin {"${}", "${i}", "${x}", "${a}", "${b}", "${v}", "${w}", "${y}", "${z}",
                 "#", "\"", "'", NoText}

NotSpace(a) == a # " "

\* a negative number is a minus sign and a literal
RECURSIVE SplitSigns(_)
SplitSigns(ts) ==
    IF \A i \in 1..Len(ts) : ~IsNegativeNumber(ts[i]) THEN ts
    ELSE LET i == CHOOSE j \in 1..Len(ts) :
                    IsNegativeNumber(ts[j]) /\ \A k \in 1..(j - 1) : ~IsNegativeNumber(ts[k])
         IN SubSeq(ts, 1, i - 1) \o <<"-", Unsigned(ts[i])>>
            \o SplitSigns(SubSeq(ts, i + 1, Len(ts)))

\* the token stream of an expression
Lex(text) == SplitSigns(SelectSeq(text, NotSpace))

Parsed(node, rest) == [ok |-> TRUE, node |-> node, rest |-> rest]
SyntaxError == [ok |-> FALSE]

Next1(ts) == IF ts = <<>> THEN "" ELSE Head(ts)

ArithOp(t) == IF t = "+" THEN "Add" ELSE "Sub"

TermOp(t) ==
    CASE t = "*"  -> "Mult"
      [] t = "/"  -> "Div"
      [] t = "%"  -> "Mod"
      [] t = "//" -> "FloorDiv"

ShiftOp(t) == IF t = "<<" THEN "LShift" ELSE "RShift"

FactorOp(t) ==
    CASE t = "+" -> "UAdd"
      [] t = "-" -> "USub"
      [] t = "~" -> "Invert"

RECURSIVE Rule(_, _)

\* disjunction ['if' disjunction 'else' expression]
ParseTest(ts) ==
    LET c == Rule("ParseOr", <<ts>>) IN
    IF ~c.ok THEN c
    ELSE IF Next1(c.rest) # "if" THEN c
    ELSE LET t == Rule("ParseOr", <<Tail(c.rest)>>) IN
         IF ~t.ok \/ Next1(t.rest) # "else" THEN SyntaxError
         ELSE LET e == Rule("ParseTest", <<Tail(t.rest)>>) IN
              IF ~e.ok THEN e ELSE Parsed(OtherNode("IfExp"), e.rest)

ParseOr(ts) ==
    LET l == Rule("ParseAnd", <<ts>>) IN IF ~l.ok THEN l ELSE Rule("OrRest", <<l.node, l.rest>>)

OrRest(left, ts) ==
    IF Next1(ts) # "or" THEN Parsed(left, ts)
    ELSE LET r == Rule("ParseAnd", <<Tail(ts)>>) IN
         IF ~r.ok THEN r ELSE Rule("OrRest", <<OtherNode("BoolOp"), r.rest>>)

ParseAnd(ts) ==
    LET l == Rule("ParseNot", <<ts>>) IN IF ~l.ok THEN l ELSE Rule("AndRest", <<l.node, l.rest>>)

AndRest(left, ts) ==
    IF Next1(ts) # "and" THEN Parsed(left, ts)
    ELSE LET r == Rule("ParseNot", <<Tail(ts)>>) IN
         IF ~r.ok THEN r ELSE Rule("AndRest", <<OtherNode("BoolOp"), r.rest>>)

ParseNot(ts) ==
    IF Next1(ts) = "not"
    THEN LET o == Rule("ParseNot", <<Tail(ts)>>) IN
         IF ~o.ok THEN o ELSE Parsed(UnaryOp("Not", o.node), o.rest)
    ELSE Rule("ParseCompare", <<ts>>)

ParseCompare(ts) ==
    LET l == Rule("ParseShift", <<ts>>) IN
    IF ~l.ok THEN l ELSE Rule("CompareRest", <<l.node, l.rest>>)

CompareRest(left, ts) ==
    IF Next1(ts) \notin {"<", ">", "=="} THEN Parsed(left, ts)
    ELSE LET r == Rule("ParseShift", <<Tail(ts)>>) IN
         IF ~r.ok THEN r ELSE Rule("CompareRest", <<OtherNode("Compare"), r.rest>>)

ParseShift(ts) ==
    LET l == Rule("ParseArith", <<ts>>) IN
    IF ~l.ok THEN l ELSE Rule("ShiftRest", <<l.node, l.rest>>)

ShiftRest(left, ts) ==
    IF Next1(ts) \notin {"<<", ">>"} THEN Parsed(left, ts)
    ELSE LET r == Rule("ParseArith", <<Tail(ts)>>) IN
         IF ~r.ok THEN r ELSE Rule("ShiftRest", <<BinOp(ShiftOp(Head(ts)), left, r.node), r.rest>>)

\* sum: term (('+' | '-') term)*
ParseArith(ts) ==
    LET l == Rule("ParseTerm", <<ts>>) IN IF ~l.ok THEN l ELSE Rule("ArithRest", <<l.node, l.rest>>)

ArithRest(left, ts) ==
    IF Next1(ts) \notin {"+", "-"} THEN Parsed(left, ts)
    ELSE LET r == Rule("ParseTerm", <<Tail(ts)>>) IN
         IF ~r.ok THEN r ELSE Rule("ArithRest", <<BinOp(ArithOp(Head(ts)), left, r.node), r.rest>>)

\* term: factor (('*' | '/' | '%' | '//') factor)*
ParseTerm(ts) ==
    LET l == Rule("ParseFactor", <<ts>>) IN
    IF ~l.ok THEN l ELSE Rule("TermRest", <<l.node, l.rest>>)

TermRest(left, ts) ==
    IF Next1(ts) \notin {"*", "/", "%", "//"} THEN Parsed(left, ts)
    ELSE LET r == Rule("ParseFactor", <<Tail(ts)>>) IN
         IF ~r.ok THEN r ELSE Rule("TermRest", <<BinOp(TermOp(Head(ts)), left, r.node), r.rest>>)

\* factor: ('+' | '-' | '~') factor | power
ParseFactor(ts) ==
    IF Next1(ts) \in {"+", "-", "~"}
    THEN LET o == Rule("ParseFactor", <<Tail(ts)>>) IN
         IF ~o.ok THEN o ELSE Parsed(UnaryOp(FactorOp(Head(ts)), o.node), o.rest)
    ELSE Rule("ParsePower", <<ts>>)

\* power: primary ['**' factor]
ParsePower(ts) ==
    LET b == Rule("ParsePrimary", <<ts>>) IN
    IF ~b.ok THEN b
    ELSE IF Next1(b.rest) # "**" THEN b
    ELSE LET e == Rule("ParseFactor", <<Tail(b.rest)>>) IN
         IF ~e.ok THEN e ELSE Parsed(BinOp("Pow", b.node, e.node), e.rest)

\* primary: atom followed by calls, subscripts and attribute references
ParsePrimary(ts) ==
    LET a == Rule("ParseAtom", <<ts>>) IN IF ~a.ok THEN a ELSE Rule("Trailers", <<a.node, a.rest>>)

Trailers(left, ts) ==
    CASE Next1(ts) = "(" ->
            IF Next1(Tail(ts)) = ")" THEN Rule("Trailers", <<Call(left, <<>>), Tail(Tail(ts))>>)
            ELSE LET args == Rule("ParseArgs", <<<<>>, Tail(ts)>>) IN
                 IF ~args.ok THEN args ELSE Rule("Trailers", <<Call(left, args.node), args.rest>>)
      [] Next1(ts) = "[" ->
            IF Next1(Tail(ts)) = ":"
            THEN LET hi == Rule("ParseTest", <<Tail(Tail(ts))>>) IN
                 IF ~hi.ok \/ Next1(hi.rest) # "]" THEN SyntaxError
                 ELSE Rule("Trailers", <<Subscript(left, OtherNode("Slice")), Tail(hi.rest)>>)
            ELSE LET k == Rule("ParseTest", <<Tail(ts)>>) IN
                 IF ~k.ok THEN k
                 ELSE IF Next1(k.rest) = "]"
                 THEN Rule("Trailers", <<Subscript(left, k.node), Tail(k.rest)>>)
                 ELSE IF Next1(k.rest) = ":"
                 THEN LET hi == Rule("ParseTest", <<Tail(k.rest)>>) IN
                      IF ~hi.ok \/ Next1(hi.rest) # "]" THEN SyntaxError
                      ELSE Rule("Trailers", <<Subscript(left, OtherNode("Slice")), Tail(hi.rest)>>)
                 ELSE IF Next1(k.rest) = ","
                 THEN LET more == Rule("TupleSlice", <<Tail(k.rest)>>) IN
                      IF ~more.ok THEN more
                      ELSE Rule("Trailers", <<Subscript(left, OtherNode("Tuple")), more.rest>>)
                 ELSE SyntaxError
      [] Next1(ts) = "." ->
            IF Len(ts) >= 2 /\ IsIdentifier(ts[2])
            THEN Rule("Trailers", <<OtherNode("Attribute"), Tail(Tail(ts))>>)
            ELSE SyntaxError
      [] OTHER -> Parsed(left, ts)

\* the further elements of a tuple subscript, up to the closing bracket
TupleSlice(ts) ==
    LET a == Rule("ParseTest", <<ts>>) IN
    IF ~a.ok THEN a
    ELSE IF Next1(a.rest) = "]" THEN Parsed(OtherNode("Tuple"), Tail(a.rest))
    ELSE IF Next1(a.rest) = "," THEN Rule("TupleSlice", <<Tail(a.rest)>>)
    ELSE SyntaxError

\* the positional arguments of a call, up to the closing parenthesis
ParseArgs(done, ts) ==
    LET a == Rule("ParseTest", <<ts>>) IN
    IF ~a.ok THEN a
    ELSE IF Next1(a.rest) = ")" THEN Parsed(done \o <<a.node>>, Tail(a.rest))
    ELSE IF Next1(a.rest) = "," THEN Rule("ParseArgs", <<done \o <<a.node>>, Tail(a.rest)>>)
    ELSE SyntaxError

\* atom: a name, a literal, a parenthesised expression or tuple, a list
\* display or comprehension
ParseAtom(ts) ==
    IF ts = <<>> THEN SyntaxError
    ELSE CASE IsLiteral(Head(ts)) -> Parsed(Constant(LiteralValue(Head(ts))), Tail(ts))
           [] Head(ts) = "(" /\ Next1(Tail(ts)) = ")" ->
                 Parsed(OtherNode("Tuple"), Tail(Tail(ts)))
           [] Head(ts) = "[" /\ Next1(Tail(ts)) = "]" ->
                 Parsed(OtherNode("List"), Tail(Tail(ts)))
           [] Head(ts) = "(" ->
                 LET e == Rule("ParseTest", <<Tail(ts)>>) IN
                 IF ~e.ok THEN e
                 ELSE IF Next1(e.rest) = ")" THEN Parsed(e.node, Tail(e.rest))
                 ELSE IF Next1(e.rest) = ","
                 THEN LET more == Rule("ParseArgs", <<<<e.node>>, Tail(e.rest)>>) IN
                      IF ~more.ok THEN more ELSE Parsed(OtherNode("Tuple"), more.rest)
                 ELSE SyntaxError
           [] Head(ts) = "[" ->
                 LET e == Rule("ParseTest", <<Tail(ts)>>) IN
                 IF ~e.ok THEN e
                 ELSE IF Next1(e.rest) = "]" THEN Parsed(OtherNode("List"), Tail(e.rest))
                 ELSE IF Next1(e.rest) = ","
                 THEN LET more == Rule("TupleSlice", <<Tail(e.rest)>>) IN
                      IF ~more.ok THEN more ELSE Parsed(OtherNode("List"), more.rest)
                 ELSE IF /\ Next1(e.rest) = "for" /\ Len(e.rest) >= 4
                         /\ IsIdentifier(e.rest[2]) /\ e.rest[3] = "in"
                 THEN LET it == Rule("ParseOr", <<SubSeq(e.rest, 4, Len(e.rest))>>) IN
                      IF ~it.ok \/ Next1(it.rest) # "]" THEN SyntaxError
                      ELSE Parsed(OtherNode("ListComp"), Tail(it.rest))
                 ELSE SyntaxError
           [] IsIdentifier(Head(ts)) -> Parsed(Name(Head(ts)), Tail(ts))
           [] OTHER -> SyntaxError

\* the rules of the grammar by name: a rule refers to a rule through this, so
\* that each rule is one definition
Rule(name, args) ==
    CASE name = "ParseTest" -> ParseTest(args[1])
      [] name = "ParseOr" -> ParseOr(args[1])
      [] name = "ParseAnd" -> ParseAnd(args[1])
      [] name = "ParseNot" -> ParseNot(args[1])
      [] name = "ParseCompare" -> ParseCompare(args[1])
      [] name = "ParseShift" -> ParseShift(args[1])
      [] name = "ParseArith" -> ParseArith(args[1])
      [] name = "ParseTerm" -> ParseTerm(args[1])
      [] name = "ParseFactor" -> ParseFactor(args[1])
      [] name = "ParsePower" -> ParsePower(args[1])
      [] name = "ParsePrimary" -> ParsePrimary(args[1])
      [] name = "TupleSlice" -> TupleSlice(args[1])
      [] name = "ParseAtom" -> ParseAtom(args[1])
      [] name = "OrRest" -> OrRest(args[1], args[2])
      [] name = "AndRest" -> AndRest(args[1], args[2])
      [] name = "CompareRest" -> CompareRest(args[1], args[2])
      [] name = "ShiftRest" -> ShiftRest(args[1], args[2])
      [] name = "ArithRest" -> ArithRest(args[1], args[2])
      [] name = "TermRest" -> TermRest(args[1], args[2])
      [] name = "Trailers" -> Trailers(args[1], args[2])
      [] name = "ParseArgs" -> ParseArgs(args[1], args[2])

\* expressions: expression (',' expression)*, to the end of the text
Expressions(e) ==
    IF ~e.ok THEN e
    ELSE IF e.rest = <<>> THEN e
    ELSE IF e.rest = <<",">> THEN Parsed(OtherNode("Tuple"), <<>>)
    ELSE IF Next1(e.rest) # "," THEN SyntaxError
    ELSE IF LET more == Rule("ParseArgs", << <<e.node>>, Tail(e.rest) \o <<")">> >>)
            IN more.ok /\ more.rest = <<>>
         THEN Parsed(OtherNode("Tuple"), <<>>)
         ELSE SyntaxError

\* ast.parse(expr.strip(), mode="eval").body
AstParse(expr) == Expressions(Rule("ParseTest", <<Lex(expr)>>))

\* _eval of the parsed expression; a text that does not parse raises
EvalParsed(parsed, names) ==
    IF ~parsed.ok THEN Raise("SyntaxError") ELSE Eval(parsed.node, names)

\* InstrumentRepl._safe_eval(expr, names)
SafeEval(expr, names) == EvalParsed(AstParse(expr), names)

\* float(v) for the text of a variable
FloatOf(text) ==
    LET t == Strip(text) IN
    IF Len(t) # 1 THEN Raise("ValueError")
    ELSE IF IsNegativeNumber(t[1])
         THEN LET v == LiteralValue(Unsigned(t[1])) IN Ok(FloatV(0 - v.n, v.d))
    ELSE IF IsLiteral(t[1]) /\ LiteralValue(t[1]).t \in {"int", "float"}
         THEN LET v == LiteralValue(t[1]) IN Ok(FloatV(v.n, v.d))
    ELSE Raise("ValueError")

\* num_vars: the variables whose text float() takes, as floats
NumVars(env) ==
    LET numeric == {i \in 1..Len(env) : Len(env[i].k) = 1 /\ FloatOf(env[i].v).ok}
    IN [id \in {env[i].k[1] : i \in numeric} |->
            FloatOf(env[CHOOSE i \in numeric : env[i].k[1] = id].v).val]

\* the value `set` binds: str(_safe_eval(raw_val, num_vars)) when that
\* returns, raw_val when it raises
SetValue(raw_val, env) ==
    LET result == SafeEval(raw_val, NumVars(env))
    IN IF result.ok THEN StrOf(result.val) ELSE raw_val

\* ---------------------------------------------------------------------------
\* Script expander, continued
\* ---------------------------------------------------------------------------
\* a call that drops its k=v tokens
CallParamsDropped(env, tokens) == env

\* call_params: a copy of the variables overlaid with the k=v tokens
RECURSIVE CallParams(_, _)
CallParams(env, tokens) ==
    IF tokens = <<>> THEN env
    ELSE LET t == Head(tokens)
             k == FirstIn(t, {"="})
         IN IF k = 0 THEN CallParams(env, Tail(tokens))
            ELSE CallParams(Bind(env, SubSeq(t, 1, k - 1), SubSeq(t, k + 1, Len(t))),
                            Tail(tokens))

\* a block scan that ends at the first end, whatever loops the block opens
RECURSIVE CollectBlockFirstEnd(_, _, _, _)
CollectBlockFirstEnd(lines, idx, depth_inner, block) ==
    IF idx > Len(lines) THEN [block |-> block, next |-> idx, raised |-> FALSE]
    ELSE LET line == Strip(lines[idx])
             head == HeadWord(ShlexSplit(line))
         IN IF IsBlankOrComment(line) THEN CollectBlockFirstEnd(lines, idx + 1, depth_inner, block)
            ELSE IF ShlexRaises(line) THEN [block |-> block, next |-> idx, raised |-> TRUE]
            ELSE IF ShlexSplit(line) = <<>> THEN CollectBlockFirstEnd(lines, idx + 1, depth_inner, block)
            ELSE IF head \in {"repeat", "for"}
                 THEN CollectBlockFirstEnd(lines, idx + 1, depth_inner + 1, Append(block, line))
            ELSE IF head = "end" THEN [block |-> block, next |-> idx + 1, raised |-> FALSE]
            ELSE CollectBlockFirstEnd(lines, idx + 1, depth_inner, Append(block, line))

\* the block scan of repeat/for from line idx: the block's lines and the
\* index of the line after the closing end
RECURSIVE CollectBlock(_, _, _, _)
CollectBlock(lines, idx, depth_inner, block) ==
    IF idx > Len(lines) THEN [block |-> block, next |-> idx, raised |-> FALSE]
    ELSE LET line == Strip(lines[idx])
             head == HeadWord(ShlexSplit(line))
         IN IF IsBlankOrComment(line) THEN CollectBlock(lines, idx + 1, depth_inner, block)
            ELSE IF ShlexRaises(line) THEN [block |-> block, next |-> idx, raised |-> TRUE]
            ELSE IF ShlexSplit(line) = <<>> THEN CollectBlock(lines, idx + 1, depth_inner, block)
            ELSE IF head \in {"repeat", "for"}
                 THEN CollectBlock(lines, idx + 1, depth_inner + 1, Append(block, line))
            ELSE IF head = "end" THEN
                 IF depth_inner - 1 = 0 THEN [block |-> block, next |-> idx + 1, raised |-> FALSE]
                 ELSE CollectBlock(lines, idx + 1, depth_inner - 1, Append(block, line))
            ELSE CollectBlock(lines, idx + 1, depth_inner, Append(block, line))

\* local_vars of one iteration of a multi-variable for
RECURSIVE BindAll(_, _, _, _)
BindAll(local, keys, parts, env) ==
    IF keys = <<>> THEN local
    ELSE BindAll(Bind(local, Head(keys), SubstituteVars(Head(parts), env)),
                 Tail(keys), Tail(parts), env)

\* The recursion of _expand_script_lines is taken one step at a time: the
\* stack holds one frame per call that has not returned (its lines, the
\* index of its next line, its variables, its depth) and each frame lists
\* the nested calls its current line still has to make, in order.
ExpandItem(lines, env, depth) ==
    [kind |-> "expand", lines |-> lines, env |-> env, depth |-> depth, msg |-> ""]

ErrorItem(msg) ==
    [kind |-> "error", lines |-> <<>>, env |-> <<>>, depth |-> 0, msg |-> msg]

Frame(lines, env, depth) ==
    [lines |-> lines, idx |-> 1, env |-> env, depth |-> depth, todo |-> <<>>]

Expanding(stack, out, errs, env) ==
    [kind |-> IF stack = <<>> THEN "expanded" ELSE "expanding",
     stack |-> stack, out |-> out, errs |-> errs, env |-> env]

\* ValueError leaves _expand_script_lines: no frame catches it, and neither
\* do_script nor onecmd does
RaisedOut(st) ==
    [kind |-> "raised", stack |-> st.stack, out |-> st.out, errs |-> st.errs,
     env |-> st.env]

\* the limit taken one call early
DepthExceededEarly(depth) == depth >= MaxCallDepth

\* the limit taken one call late
DepthExceededLate(depth) == depth > MaxCallDepth + 1

\* depth > 10
DepthExceeded(depth) == depth > MaxCallDepth

\* entry of _expand_script_lines(lines, variables, depth) below the frames
\* of stack: beyond the depth limit it reports and returns no line
EnterExpand(st, stack, item) ==
    IF DepthExceeded(item.depth)
    THEN Expanding(stack, st.out, Append(st.errs, "depth"),
                   IF stack = <<>> THEN item.env ELSE st.env)
    ELSE Expanding(Append(stack, Frame(item.lines, item.env, item.depth)),
                   st.out, st.errs, st.env)

\* a repeat that expands its block once whatever the count
RepeatItemsOnce(block, count, env, depth) == <<ExpandItem(block, env, depth)>>

\* the nested calls of `repeat count`: count expansions of the block, each
\* with a copy of the variables
RepeatItems(block, count, env, depth) ==
    [i \in 1..(IF count > 0 THEN count ELSE 0) |-> ExpandItem(block, env, depth)]

\* a for that binds its variable to the first value in every iteration
ForItemsFirstValue(block, key, values, env, depth) ==
    [i \in 1..Len(values) |->
        ExpandItem(block, Bind(env, key, SubstituteVars(values[1], env)), depth)]

\* the nested calls of a single-variable for: one per value
ForItems(block, key, values, env, depth) ==
    [i \in 1..Len(values) |->
        ExpandItem(block, Bind(env, key, SubstituteVars(values[i], env)), depth)]

\* the nested calls of a multi-variable for: one per value, up to a value
\* whose arity differs, which is reported and ends the loop
RECURSIVE ForItemsMulti(_, _, _, _, _)
ForItemsMulti(block, keys, values, env, depth) ==
    IF values = <<>> THEN <<>>
    ELSE LET parts == SplitOn(Head(values), ",")
         IN IF Len(parts) # Len(keys) THEN <<ErrorItem("arity")>>
            ELSE <<ExpandItem(block, BindAll(env, keys, parts, env), depth)>>
                 \o ForItemsMulti(block, keys, Tail(values), env, depth)

\* the line frame f is at makes shlex.split raise: the line itself, or a line
\* of the block that its repeat or for collects
LineRaises(f) ==
    LET raw_line == Strip(f.lines[f.idx])
        tokens   == ShlexSplit(raw_line)
        head     == HeadWord(tokens)
    IN /\ ~IsBlankOrComment(raw_line)
       /\ \/ ShlexRaises(raw_line)
          \/ /\ \/ /\ head = "repeat" /\ Len(tokens) >= 2
                    /\ Len(tokens[2]) = 1 /\ tokens[2][1] \in IntTokens
                 \/ /\ head = "for" /\ Len(tokens) >= 3
             /\ CollectBlock(f.lines, f.idx + 1, 1, <<>>).raised

\* one line of the while loop of _expand_script_lines in frame f: the frame
\* after the line, and the lines and reports the line adds
ExpandLine(scripts, f) ==
    LET raw_line == Strip(f.lines[f.idx])
        tokens   == ShlexSplit(raw_line)
        head     == HeadWord(tokens)
        rest     == SubSeq(tokens, 3, Len(tokens))
        c        == CollectBlock(f.lines, f.idx + 1, 1, <<>>)
        next     == [f EXCEPT !.idx = f.idx + 1]
        Quiet(g) == [frame |-> g, out |-> <<>>, errs |-> <<>>]
    IN CASE IsBlankOrComment(raw_line) \/ tokens = <<>> -> Quiet(next)
         [] head = "set" /\ Len(tokens) >= 3 ->
              Quiet([next EXCEPT !.env =
                  Bind(f.env, tokens[2],
                       SetValue(SubstituteVars(JoinSpace(rest), f.env), f.env))])
         [] head = "call" /\ Len(tokens) >= 2 ->
              IF Len(tokens[2]) = 1 /\ tokens[2][1] \in DOMAIN scripts
              THEN Quiet([next EXCEPT !.todo =
                      <<ExpandItem(scripts[tokens[2][1]], CallParams(f.env, rest),
                                   f.depth + 1)>>])
              ELSE [frame |-> next, out |-> <<>>, errs |-> <<"notfound">>]
         [] head = "repeat" /\ Len(tokens) >= 2 ->
              IF Len(tokens[2]) = 1 /\ tokens[2][1] \in IntTokens
              THEN Quiet([f EXCEPT !.idx = c.next,
                                   !.todo = RepeatItems(c.block, IntOf(tokens[2][1]),
                                                        f.env, f.depth)])
              ELSE [frame |-> next, out |-> <<>>, errs |-> <<"count">>]
         [] head = "for" /\ Len(tokens) >= 3 ->
              Quiet([f EXCEPT !.idx = c.next,
                              !.todo =
                  IF "," \in Range(tokens[2])
                  THEN ForItemsMulti(c.block,
                                     SelectSeq(SplitOn(tokens[2], ","),
                                               LAMBDA name : name # <<>>),
                                     rest, f.env, f.depth)
                  ELSE ForItems(c.block, tokens[2], rest, f.env, f.depth)])
         [] head = "end" -> Quiet(next)
         [] OTHER -> [frame |-> next, out |-> <<SubstituteVars(raw_line, f.env)>>,
                      errs |-> <<>>]

\* one step of the expansion st: the top frame makes its next nested call,
\* or returns, or takes its next line
ExpandStepOf(scripts, st) ==
    LET n     == Len(st.stack)
        f     == st.stack[n]
        below == SubSeq(st.stack, 1, n - 1)
    IN IF f.todo # <<>> THEN
            LET item  == Head(f.todo)
                stack == Append(below, [f EXCEPT !.todo = Tail(f.todo)])
            IN IF item.kind = "error"
               THEN Expanding(stack, st.out, Append(st.errs, item.msg), st.env)
               ELSE EnterExpand(st, stack, item)
       ELSE IF f.idx > Len(f.lines) THEN
            Expanding(below, st.out, st.errs, IF n = 1 THEN f.env ELSE st.env)
       ELSE IF LineRaises(f) THEN RaisedOut(st)
       ELSE LET r == ExpandLine(scripts, f)
            IN Expanding(Append(below, r.frame), st.out \o r.out, st.errs \o r.errs,
                         st.env)

\* ---------------------------------------------------------------------------
\* Measurement log
\* ---------------------------------------------------------------------------
\* InstrumentRepl._record_measurement(label, value, unit, source)
RecordMeasurement(log, label, value, unit, source) ==
    Append(log, [label |-> label, value |-> value, unit |-> unit, source |-> source])

\* a map in which the first record of a label wins
AsMapFirstWins(log) ==
    [l \in {log[i].label : i \in 1..Len(log)} |->
        log[CHOOSE i \in 1..Len(log) :
                log[i].label = l /\ \A j \in 1..Len(log) : log[j].label = l => j >= i].value]

\* m = {entry["label"]: entry["value"] for entry in self.measurements}: a
\* later record of a label replaces the earlier one
AsMap(log) ==
    [l \in {log[i].label : i \in 1..Len(log)} |->
        log[CHOOSE i \in 1..Len(log) :
                log[i].label = l /\ \A j \in 1..Len(log) : log[j].label = l => j <= i].value]

\* the unit= token of calc and the tokens of its expression
IsUnitToken(token) == Len(token) >= 2 /\ Lower(token[1]) = "unit" /\ token[2] = "="

RECURSIVE CalcUnit(_, _)
CalcUnit(tokens, unit) ==
    IF tokens = <<>> THEN unit
    ELSE IF IsUnitToken(Head(tokens))
         THEN CalcUnit(Tail(tokens), SubSeq(Head(tokens), 3, Len(Head(tokens))))
         ELSE CalcUnit(Tail(tokens), unit)

IsExprToken(token) == ~IsUnitToken(token)

\* a calc that records a failed evaluation as a measurement without a value
CalcRecordsFailure(log, arg) ==
    LET args  == IF ShlexRaises(arg) THEN <<>> ELSE ShlexSplit(arg)
        unit  == CalcUnit(Tail(args), <<>>)
        expr  == JoinSpace(SelectSeq(Tail(args), IsExprToken))
        names == [m |-> DictV(AsMap(log)), last |-> log[Len(log)].value]
        value == SafeEval(expr, names)
        Refused(why) == [kind |-> "calc", ok |-> FALSE, why |-> why, log |-> log]
    IN IF Len(args) < 2 THEN Refused("usage")
       ELSE IF expr = <<>> THEN Refused("expression")
       ELSE IF log = <<>> THEN Refused("empty")
       ELSE IF ~value.ok
            THEN [kind |-> "calc", ok |-> FALSE, why |-> value.err, names |-> names,
                  log |-> RecordMeasurement(log, args[1][1], NoneV, unit, "calc")]
       ELSE [kind |-> "calc", ok |-> TRUE, names |-> names, value |-> value.val,
             log |-> RecordMeasurement(log, args[1][1], value.val, unit, "calc")]

\* do_calc(arg) on the log: what it gives the evaluator, what comes back, and
\* the log afterwards.  A label of the model is one atom.
Calc(log, arg) ==
    LET args  == IF ShlexRaises(arg) THEN <<>> ELSE ShlexSplit(arg)
        unit  == CalcUnit(Tail(args), <<>>)
        expr  == JoinSpace(SelectSeq(Tail(args), IsExprToken))
        names == [m |-> DictV(AsMap(log)), last |-> log[Len(log)].value]
        value == SafeEval(expr, names)
        Refused(why) == [kind |-> "calc", ok |-> FALSE, why |-> why, log |-> log]
    IN IF Len(args) < 2 THEN Refused("usage")
       ELSE IF expr = <<>> THEN Refused("expression")
       ELSE IF log = <<>> THEN Refused("empty")
       ELSE IF ~value.ok
            THEN [kind |-> "calc", ok |-> FALSE, why |-> value.err, names |-> names,
                  log |-> log]
       ELSE [kind |-> "calc", ok |-> TRUE, names |-> names, value |-> value.val,
             log |-> RecordMeasurement(log, args[1][1], value.val, unit, "calc")]

\* ---------------------------------------------------------------------------
\* Shell process
\* ---------------------------------------------------------------------------
AtPrompt == ps = "running" /\ pass.fin

\* the records of a bulk pass are those of the latest command: the next
\* command starts with none
ClearRecords == pass' = NoPass /\ visited' = <<>> /\ calls' = <<>> /\ reported' = <<>>

UseNames == {"psu", "psu1", "awg", "scope", "dmm", "dmm2", "nosuch"}

BulkOps == {"safe", "on", "off", "reset"}

RouterIdle == rin = Idle /\ rout = Idle
ExpandIdle == xin = Idle /\ xout = Idle
EvalIdle == ein = Idle /\ eout = Idle
LogIdle == measurements = <<>> /\ lcmd = Idle
DriverIdle == din = Idle /\ dout = Idle

\* InstrumentRepl.__init__ up to the registration of the cleanup handlers;
\* the startup safing pass is then taken step by step
InitShell ==
    \E reg \in ScanResults :
        /\ devices = reg
        /\ selected = SelectedAfterScan(None, reg)
        /\ handlers = (reg # <<>>)
        /\ pass = IF reg # <<>> THEN NewPass("safe", "startup", reg) ELSE NoPass
        /\ ps = "running"
        /\ cleanupDone = FALSE
        /\ visited = <<>> /\ calls = <<>> /\ reported = <<>>
        /\ shutdownPasses = 0 /\ hookCalls = 0
        /\ exitKind = "none"
        /\ RouterIdle /\ ExpandIdle /\ EvalIdle /\ LogIdle /\ DriverIdle

\* one iteration of the loop of _safe_all/_off_all/_on_all/_reset_all
PassStep ==
    /\ ps # "terminated" /\ ~pass.fin /\ pass.idx <= Len(pass.regs)
    /\ LET e    == pass.regs[pass.idx]
           plan == Plan(pass.op, e.name, e.cls)
       IN \E f \in 0..Len(plan) :
            LET made == Issued(plan, f) IN
            /\ visited' = Append(visited, e.name)
            /\ calls' = calls \o [i \in 1..Len(made) |-> <<e.name, made[i].m>>]
            /\ reported' = IF Raised(plan, f) THEN Append(reported, e.name) ELSE reported
            /\ pass' = [pass EXCEPT !.idx = AfterVisit(pass.idx, Raised(plan, f),
                                                      Len(pass.regs))]
    /\ UNCHANGED <<ps, devices, selected, cleanupDone, handlers, shutdownPasses,
                   hookCalls, exitKind, routerVars, expandVars, evalVars, logVars,
                   driverVars>>

\* the loop is exhausted: the pass returns to its caller, which is the prompt,
\* the end of the exit hook, or os._exit(0) at the end of the signal handler
PassReturn ==
    /\ ps # "terminated" /\ ~pass.fin /\ pass.idx > Len(pass.regs)
    /\ pass' = [pass EXCEPT !.fin = TRUE]
    /\ ps' = IF pass.kind \in {"atexit", "interrupt"} THEN "terminated" ELSE ps
    /\ UNCHANGED <<devices, selected, cleanupDone, handlers, visited, calls, reported,
                   shutdownPasses, hookCalls, exitKind, routerVars, expandVars, evalVars,
                   logVars, driverVars>>

\* do_scan
DoScan ==
    /\ AtPrompt
    /\ \E reg \in ScanResults :
        /\ devices' = reg
        /\ selected' = SelectedAfterScan(selected, reg)
    /\ ClearRecords
    /\ UNCHANGED <<ps, cleanupDone, handlers, shutdownPasses, hookCalls, exitKind,
                   routerVars, expandVars, evalVars, logVars, driverVars>>

\* do_use
DoUse ==
    /\ AtPrompt
    /\ \E name \in UseNames :
        selected' = IF InReg(name, devices) THEN name ELSE selected
    /\ ClearRecords
    /\ UNCHANGED <<ps, devices, cleanupDone, handlers, shutdownPasses, hookCalls,
                   exitKind, routerVars, expandVars, evalVars, logVars, driverVars>>

\* do_close
DoClose ==
    /\ AtPrompt
    /\ devices' = <<>>
    /\ selected' = None
    /\ ClearRecords
    /\ UNCHANGED <<ps, cleanupDone, handlers, shutdownPasses, hookCalls, exitKind,
                   routerVars, expandVars, evalVars, logVars, driverVars>>

\* do_state / do_all with a bulk operation
DoState ==
    /\ AtPrompt
    /\ \E op \in BulkOps : pass' = NewPass(op, "cmd", devices)
    /\ visited' = <<>> /\ calls' = <<>> /\ reported' = <<>>
    /\ UNCHANGED <<ps, devices, selected, cleanupDone, handlers, shutdownPasses,
                   hookCalls, exitKind, routerVars, expandVars, evalVars, logVars,
                   driverVars>>

\* exit, quit or end of input: cmdloop returns, main returns and the
\* interpreter runs the atexit hook if one was registered
DoExit ==
    /\ AtPrompt
    /\ exitKind' = "exit"
    /\ IF handlers
       THEN /\ hookCalls' = hookCalls + 1
            /\ IF CleanupGuard(cleanupDone, devices)
               THEN /\ cleanupDone' = TRUE
                    /\ shutdownPasses' = shutdownPasses + 1
                    /\ pass' = NewPass("safe", "atexit", devices)
                    /\ visited' = <<>> /\ calls' = <<>> /\ reported' = <<>>
                    /\ ps' = "atexit"
               ELSE /\ ps' = "terminated"
                    /\ UNCHANGED <<cleanupDone, shutdownPasses, pass, visited, calls,
                                   reported>>
       ELSE /\ ps' = "terminated"
            /\ UNCHANGED <<hookCalls, cleanupDone, shutdownPasses, pass, visited, calls,
                           reported>>
    /\ UNCHANGED <<devices, selected, handlers, routerVars, expandVars, evalVars, logVars,
                   driverVars>>

\* SIGINT or SIGTERM, at any point of the process: _cleanup_on_interrupt if it
\* was registered, the default disposition (the process ends) otherwise
Signal ==
    /\ ps # "terminated"
    /\ hookCalls < MaxHookCalls
    /\ exitKind' = "signal"
    /\ IF handlers
       THEN /\ hookCalls' = hookCalls + 1
            /\ IF CleanupGuard(cleanupDone, devices)
               THEN /\ cleanupDone' = TRUE
                    /\ shutdownPasses' = shutdownPasses + 1
                    /\ pass' = NewPass("safe", "interrupt", devices)
                    /\ visited' = <<>> /\ calls' = <<>> /\ reported' = <<>>
                    /\ ps' = ps
               ELSE /\ ps' = "terminated"
                    /\ UNCHANGED <<cleanupDone, shutdownPasses, pass, visited, calls,
                                   reported>>
       ELSE /\ ps' = "terminated"
            /\ UNCHANGED <<hookCalls, cleanupDone, shutdownPasses, pass, visited, calls,
                           reported>>
    /\ UNCHANGED <<devices, selected, handlers, routerVars, expandVars, evalVars, logVars,
                   driverVars>>

Init == InitShell

Next ==
    \/ PassStep
    \/ PassReturn
    \/ DoScan
    \/ DoUse
    \/ DoClose
    \/ DoState
    \/ DoExit
    \/ Signal

Spec == Init /\ [][Next]_vars

\* ---------------------------------------------------------------------------
\* Router and resolver applied to bounded inputs
\* ---------------------------------------------------------------------------
AllModels == DOMAIN MODEL_MAP

RouterBenches == SeqsUpTo({[model |-> m, ok |-> TRUE] : m \in AllModels}, MaxRouterBench)

DiscoveredRegs == {Discover(b) : b \in RouterBenches}

\* the key older discovery code gave the JDS6600
DdsEntry == Entry("dds", "JDS6600_Generator")

LegacyRegs == {<<DdsEntry>> \o r : r \in DiscoveredRegs}
              \cup {r \o <<DdsEntry>> : r \in DiscoveredRegs}

RouterRegs == DiscoveredRegs \cup LegacyRegs

ChainRegs == {<<>>, Discover(<<[model |-> "E3631A", ok |-> TRUE]>>),
              Discover(<<[model |-> "E3631A", ok |-> TRUE],
                         [model |-> "MPS-6010H-1C", ok |-> TRUE]>>)}

FanHeads == {"psu", "awg", "scope", "dmm", "psu1", "awg1", "awg2", "scope2", "dds"}

FanLines ==
    UNION {{<<h, "chan", "all", "on">>, <<h, "set", "ALL", "5">>, <<h, "all", "all">>,
            <<h, "read">>} : h \in FanHeads}

SimpleCmds == {<<"list">>, <<"exit">>, <<"psu", "set", "all", "5">>}

RECURSIVE JoinSemi(_)
JoinSemi(cmds) ==
    IF cmds = <<>> THEN <<>>
    ELSE IF Len(cmds) = 1 THEN cmds[1]
    ELSE cmds[1] \o <<";">> \o JoinSemi(Tail(cmds))

ChainBodies == {JoinSemi(cs) : cs \in SeqsUpTo(SimpleCmds, MaxChunks) \ {<<>>}}

ChainLines ==
    ChainBodies
    \cup {<<";">> \o b : b \in ChainBodies}
    \cup {b \o <<";">> : b \in ChainBodies}
    \cup {b \o <<";", ";">> \o c : b \in ChainBodies, c \in SimpleCmds}

CountTokens == {<<"0", "1", "2", "3">>[i + 1] : i \in 0..MaxCount} \cup {"x"}

RepeatPrefixes == {<<>>, <<"list", ";">>, <<"exit", ";">>}

RepeatRemainders ==
    {<<>>} \cup SimpleCmds \cup {<<";">> \o c : c \in SimpleCmds}

RepeatLines ==
    {p \o <<kw, n>> \o b \o e \o r :
        p \in RepeatPrefixes, kw \in {"repeat", "repeatall"}, n \in CountTokens,
        b \in ChainBodies, e \in {<<>>, <<"end">>}, r \in RepeatRemainders}

RouterInput(kind, type, ov, line) ==
    [kind |-> kind, type |-> type, ov |-> ov, line |-> line]

RouterOutput(kind, name, target, r) ==
    [kind |-> kind, name |-> name, target |-> target, stop |-> r.stop, log |-> r.log]

NoRun == Result(FALSE, <<>>)

DefaultHeads == {"psu1", "psu2", "awg1", "awg2", "scope1", "dmm2", "dds", "nosuch"}

\* lines whose first token has no do_ method, as cmd.Cmd hands them to default
DefaultLines ==
    {<<h>> \o r : h \in DefaultHeads, r \in {<<>>, <<"read">>, <<"chan", "1", "on">>}}

\* where default() is: kind "handler" while handler(rest) runs, "default"
\* once default has returned or let the handler's exception through;
\* override is self._device_override
DefaultState(kind, override, handler, target, raised) ==
    [kind |-> kind, override |-> override, handler |-> handler, target |-> target,
     raised |-> raised]

\* a registry, and a request to the resolver or a line for the router
InitRouter ==
    /\ \/ /\ devices \in RouterRegs
          /\ \E t \in DeviceTypes, o \in {None} \cup Range(Names(devices)) :
                rin = RouterInput("resolve", t, o, <<>>)
       \/ /\ devices \in RouterRegs
          /\ \E l \in FanLines : rin = RouterInput("single", "", None, l)
       \/ /\ devices \in ChainRegs
          /\ \E l \in ChainLines \cup RepeatLines : rin = RouterInput("line", "", None, l)
       \/ /\ devices \in RouterRegs
          /\ \E l \in DefaultLines : rin = RouterInput("default", "", None, l)
    /\ rout = Idle
    /\ selected = SelectedAfterScan(None, devices)
    /\ handlers = (devices # <<>>)
    /\ pass = NoPass
    /\ ps = "running"
    /\ cleanupDone = FALSE
    /\ visited = <<>> /\ calls = <<>> /\ reported = <<>>
    /\ shutdownPasses = 0 /\ hookCalls = 0
    /\ exitKind = "none"
    /\ ExpandIdle /\ EvalIdle /\ LogIdle /\ DriverIdle

\* do_psu/do_awg/do_dmm/do_scope resolving their device
ApplyResolve ==
    /\ rin.kind = "resolve" /\ rout = Idle
    /\ rout' = RouterOutput("resolved", ResolveDeviceType(devices, rin.type, rin.ov),
                            HandlerTarget(devices, rin.type, rin.ov), NoRun)
    /\ UNCHANGED <<shellVars, rin, expandVars, evalVars, logVars, driverVars>>

\* _onecmd_single on one command line
ApplySingle ==
    /\ rin.kind = "single" /\ rout = Idle
    /\ rout' = RouterOutput("single", None, None, OnecmdSingle(devices, rin.ov, rin.line))
    /\ UNCHANGED <<shellVars, rin, expandVars, evalVars, logVars, driverVars>>

\* onecmd on one input line
ApplyOnecmd ==
    /\ rin.kind = "line" /\ rout = Idle
    /\ rout' = RouterOutput("line", None, None, Onecmd(devices, rin.ov, rin.line))
    /\ UNCHANGED <<shellVars, rin, expandVars, evalVars, logVars, driverVars>>

\* default(line) up to its call of the handler: a registered name whose base
\* type has a do_ method sets the override and enters the handler, which
\* resolves its device; any other line is reported as unknown syntax
DefaultEnter ==
    /\ rin.kind = "default" /\ rout = Idle
    /\ LET cmd_token == rin.line[1]
           base_type == BaseType(cmd_token)
       IN rout' = IF InReg(cmd_token, devices) /\ base_type \in DeviceTypes
                  THEN DefaultState("handler", cmd_token, base_type,
                                    DefaultTarget(devices, rin.line), FALSE)
                  ELSE DefaultState("default", None, None, None, FALSE)
    /\ UNCHANGED <<shellVars, rin, expandVars, evalVars, logVars, driverVars>>

\* the handler returns or raises; the finally clause clears the override
DefaultLeave ==
    /\ rout.kind = "handler"
    /\ \E raised \in BOOLEAN :
          rout' = [rout EXCEPT !.kind = "default", !.override = None, !.raised = raised]
    /\ UNCHANGED <<shellVars, rin, expandVars, evalVars, logVars, driverVars>>

NextRouter ==
    \/ ApplyResolve
    \/ ApplySingle
    \/ ApplyOnecmd
    \/ DefaultEnter
    \/ DefaultLeave

SpecRouter == InitRouter /\ [][NextRouter]_vars

\* ---------------------------------------------------------------------------
\* The expander on bounded script stores
\* ---------------------------------------------------------------------------
ScriptNames ==
    <<"s0", "s1", "s2", "s3", "s4", "s5", "s6", "s7", "s8", "s9", "s10", "s11", "s12",
      "s13", "s14", "s15">>

PreWords ==
    <<"p0", "p1", "p2", "p3", "p4", "p5", "p6", "p7", "p8", "p9", "p10", "p11", "p12",
      "p13", "p14", "p15">>

PostWords ==
    <<"q0", "q1", "q2", "q3", "q4", "q5", "q6", "q7", "q8", "q9", "q10", "q11", "q12",
      "q13", "q14", "q15">>

ScriptIndex(name) == CHOOSE k \in 1..Len(ScriptNames) : ScriptNames[k] = name

\* the lines of a script that does one nested call between two literal lines
CallerLines(k, pre, post, callee) ==
    (IF pre THEN << <<PreWords[k]>> >> ELSE <<>>)
    \o (IF callee = None THEN <<>> ELSE << <<"call", " ", callee>> >>)
    \o (IF post THEN << <<PostWords[k]>> >> ELSE <<>>)

\* scripts s0 .. sn, each calling the next, the last calling none
ChainStore(n, pre, post) ==
    [name \in {ScriptNames[k] : k \in 1..(n + 1)} |->
        LET k == ScriptIndex(name)
        IN CallerLines(k, pre, post, IF k <= n THEN ScriptNames[k + 1] ELSE None)]

\* scripts s0 .. sn, each calling the next, the last calling s0 again
CycleStore(n, pre, post) ==
    [name \in {ScriptNames[k] : k \in 1..(n + 1)} |->
        LET k == ScriptIndex(name)
        IN CallerLines(k, pre, post, IF k <= n THEN ScriptNames[k + 1] ELSE ScriptNames[1])]

ExpandInput(kind, scripts, entry, n) ==
    [kind |-> kind, scripts |-> scripts, entry |-> entry, n |-> n, params |-> <<>>]

\* the count token of a loop that runs n times
CountToken(n) == <<"0", "1", "2", "3">>[n + 1]

Echo(text) == <<"echo", " ">> \o text

SetLine(name, value) == <<"set", " ", name, " ">> \o value

\* a script whose repeat block reads x, sets it, and reads it again, with x
\* set before the loop (a # None) or unbound, and read again after the loop
RepeatScript(n, a, b) ==
    (IF a = None THEN <<>> ELSE <<SetLine("x", <<a>>)>>)
    \o << <<"repeat", " ", CountToken(n)>>,
          Echo(<<"${x}">>),
          SetLine("x", <<b>>),
          Echo(<<"${x}">>),
          <<"end">>,
          Echo(<<"${x}">>) >>

RepeatInputs ==
    {[kind |-> "repeat", scripts |-> [name \in {"s0"} |-> RepeatScript(n, a, b)],
      entry |-> "s0", params |-> <<>>, n |-> n, a |-> a, b |-> b] :
        n \in 0..MaxCount, a \in {None, "1", "w1"}, b \in {"2", "w2"}}

ChainInputs ==
    {ExpandInput("chain", ChainStore(n, pre, post), ScriptNames[e + 1], n) :
        <<n, e>> \in {ne \in (0..MaxChain) \X (0..MaxChain) : ne[2] <= ne[1]},
        pre \in BOOLEAN, post \in BOOLEAN}
    \cup {ExpandInput("cycle", CycleStore(n, pre, post), ScriptNames[1], n) :
        n \in 0..MaxCycle, pre \in BOOLEAN, post \in BOOLEAN}

\* a caller that binds x and y, calls s1 with optional x= and z= pairs, and
\* then reads x, y and z
CallerScript(a, px, pz) ==
    << SetLine("x", <<a>>),
       SetLine("y", <<"1">>),
       <<"call", " ", "s1">>
         \o (IF px = None THEN <<>> ELSE <<" ", "x", "=", px>>)
         \o (IF pz = None THEN <<>> ELSE <<" ", "z", "=", pz>>),
       Echo(<<"${x}", " ", "${y}", " ", "${z}">>) >>

\* a callee that reads x, y and z, sets y and w, and reads those
CalleeScript ==
    << Echo(<<"${x}", " ", "${y}", " ", "${z}">>),
       SetLine("y", <<"3">>),
       SetLine("w", <<"4">>),
       Echo(<<"${y}", " ", "${w}">>) >>

CallInputs ==
    {[kind |-> "call",
      scripts |-> [name \in {"s0", "s1"} |->
                     IF name = "s0" THEN CallerScript(a, px, pz) ELSE CalleeScript],
      entry |-> "s0", params |-> <<>>, a |-> a, px |-> px, pz |-> pz] :
        a \in {"1", "w1"}, px \in {None, "2", "w2"}, pz \in {None, "5"}}

RECURSIVE JoinComma(_)
JoinComma(parts) ==
    IF parts = <<>> THEN <<>>
    ELSE IF Len(parts) = 1 THEN <<parts[1]>>
    ELSE <<parts[1], ",">> \o JoinComma(Tail(parts))

\* the value tokens of a for line, each written from its comma-separated parts
RECURSIVE ValueTokens(_)
ValueTokens(vals) ==
    IF vals = <<>> THEN <<>>
    ELSE <<" ">> \o JoinComma(Head(vals)) \o ValueTokens(Tail(vals))

\* a script with one for loop over the values vals, the loop variables read
\* again after the loop, and i bound before the loop when outer # None
ForScript(keys, vals, body, outer) ==
    (IF outer = None THEN <<>> ELSE <<SetLine("i", <<outer>>)>>)
    \o << <<"for", " ">> \o JoinComma(keys) \o ValueTokens(vals),
          body,
          <<"end">>,
          body >>

ForValues == {<<"1">>, <<"2">>, <<"3">>}

ForValuesMulti == {<<"1", "2">>, <<"3", "4">>, <<"3">>, <<"1", "2", "3">>}

ForInputs ==
    {[kind |-> "for", scripts |-> [name \in {"s0"} |->
                        ForScript(<<"i">>, vals, Echo(<<"${i}">>), outer)],
      entry |-> "s0", params |-> <<>>, vals |-> vals, outer |-> outer] :
        vals \in SeqsUpTo(ForValues, MaxValues) \ {<<>>}, outer \in {None, "0"}}
    \cup
    {[kind |-> "formulti", scripts |-> [name \in {"s0"} |->
                        ForScript(<<"a", "b">>, vals, <<"${a}", "-", "${b}">>, None)],
      entry |-> "s0", params |-> <<>>, vals |-> vals, outer |-> None] :
        vals \in SeqsUpTo(ForValuesMulti, MaxValues) \ {<<>>}}

\* lines of a script without set, repeat, for or call: the text as written,
\* the text without its surrounding whitespace, and what the line is
PlainLine(text, core, class) == [text |-> text, core |-> core, class |-> class]

PlainLines ==
    { PlainLine(<<"echo", " ", "w1">>, <<"echo", " ", "w1">>, "command"),
      PlainLine(<<" ", "echo", " ", "w2", " ">>, <<"echo", " ", "w2">>, "command"),
      PlainLine(<<"echo", " ", "${x}">>, <<"echo", " ", "${x}">>, "command"),
      PlainLine(<<>>, <<>>, "blank"),
      PlainLine(<<" ">>, <<>>, "blank"),
      PlainLine(<<"#", " ", "w1">>, <<"#", " ", "w1">>, "comment"),
      PlainLine(<<" ", "#", "w1">>, <<"#", "w1">>, "comment"),
      PlainLine(<<"end">>, <<"end">>, "end") }

PlainInputs ==
    {[kind |-> "plain", scripts |-> [name \in {"s0"} |-> [j \in 1..Len(src) |-> src[j].text]],
      entry |-> "s0", params |-> <<>>, src |-> src] :
        src \in SeqsUpTo(PlainLines, MaxLines)}

\* a script that sets x from a text, with v set before it (pre # None) or
\* unbound, and reads x
SetScript(pre, raw) ==
    (IF pre = None THEN <<>> ELSE <<SetLine("v", <<pre>>)>>)
    \o <<SetLine("x", raw), Echo(<<"${x}">>)>>

\* the texts given to set: arithmetic, a reference and a name of v, words,
\* a division by zero, a comparison, a constant and a function written bare
SetTexts ==
    { <<"2", " ", "+", " ", "3", " ", "*", " ", "4">>,
      <<"7", " ", "/", " ", "2">>,
      <<"3">>, <<"0.5">>,
      <<"v", " ", "+", " ", "1">>,
      <<"${v}", " ", "+", " ", "1">>,
      <<"abs", "(", "-1", ")">>,
      <<"hello", " ", "world">>,
      <<"w1">>,
      <<"1", " ", "/", " ", "0">>,
      <<"1", " ", "<", " ", "2">>,
      <<"True">>,
      <<"max">> }

SetInputs ==
    {[kind |-> "set", scripts |-> [name \in {"s0"} |-> SetScript(pre, raw)],
      entry |-> "s0", params |-> <<>>, pre |-> pre, raw |-> raw] :
        pre \in {None, "5", "2.5", "w1"}, raw \in SetTexts}

\* a command whose argument is quoted, with or without the closing quote
QuotedLine(closed) ==
    Echo(IF closed THEN <<"\"", "w1", " ", "w2", "\"">> ELSE <<"\"", "w1">>)

\* scripts with the quoted line between two other commands: in the script
\* run, in a repeat block of it, or in a script it calls
QuoteStore(where, closed) ==
    [name \in {"s0", "s1"} |->
        IF name = "s1" THEN <<QuotedLine(closed)>>
        ELSE <<Echo(<<"1">>)>>
             \o (CASE where = "top"    -> <<QuotedLine(closed)>>
                   [] where = "block"  -> << <<"repeat", " ", "2">>, QuotedLine(closed), <<"end">> >>
                   [] where = "callee" -> << <<"call", " ", "s1">> >>)
             \o <<Echo(<<"2">>)>>]

QuoteInputs ==
    {[kind |-> "quote", scripts |-> QuoteStore(where, closed), entry |-> "s0",
      params |-> <<>>, where |-> where, closed |-> closed] :
        where \in {"top", "block", "callee"}, closed \in BOOLEAN}

\* the literal lines of a loop body, and the values of a for line
BodyLines == <<Echo(<<"b1">>), Echo(<<"b2">>), Echo(<<"b3">>), Echo(<<"b4">>)>>

LoopValues == <<"1", "2", "3", "4">>

\* a script with a repeat n around a for over m values with k literal body
\* lines: a line between the two ends when mid, a line after the loops, and
\* an end with no open block before and after them when stray
NestScript(n, m, k, mid, stray) ==
    (IF stray THEN << <<"end">> >> ELSE <<>>)
    \o << <<"repeat", " ", CountToken(n)>>,
          <<"for", " ", "i">> \o ValueTokens([j \in 1..m |-> <<LoopValues[j]>>]) >>
    \o SubSeq(BodyLines, 1, k)
    \o << <<"end">> >>
    \o (IF mid THEN <<Echo(<<"mid">>)>> ELSE <<>>)
    \o << <<"end">>, Echo(<<"after">>) >>
    \o (IF stray THEN << <<"end">> >> ELSE <<>>)

NestInputs ==
    {[kind |-> "nest", scripts |-> [name \in {"s0"} |-> NestScript(n, m, k, mid, stray)],
      entry |-> "s0", params |-> <<>>, n |-> n, m |-> m, k |-> k, mid |-> mid,
      stray |-> stray] :
        n \in 0..MaxCount, m \in 1..MaxValues, k \in 1..MaxLines,
        mid \in BOOLEAN, stray \in BOOLEAN}

ExpandInputs ==
    ChainInputs \cup RepeatInputs \cup CallInputs \cup ForInputs \cup PlainInputs
    \cup SetInputs \cup QuoteInputs \cup NestInputs

InitExpand ==
    /\ xin \in ExpandInputs
    /\ xout = Idle
    /\ devices = <<>>
    /\ selected = None
    /\ handlers = FALSE
    /\ pass = NoPass
    /\ ps = "running"
    /\ cleanupDone = FALSE
    /\ visited = <<>> /\ calls = <<>> /\ reported = <<>>
    /\ shutdownPasses = 0 /\ hookCalls = 0
    /\ exitKind = "none"
    /\ RouterIdle /\ EvalIdle /\ LogIdle /\ DriverIdle

\* do_script run calling _expand_script_lines(lines, params)
BeginExpand ==
    /\ xin # Idle /\ xout = Idle
    /\ xout' = EnterExpand(Expanding(<<>>, <<>>, <<>>, xin.params), <<>>,
                           ExpandItem(xin.scripts[xin.entry], xin.params, 0))
    /\ UNCHANGED <<shellVars, routerVars, xin, evalVars, logVars, driverVars>>

\* the expansion goes on by one step
ExpandStep ==
    /\ xout # Idle /\ xout.kind = "expanding"
    /\ xout' = ExpandStepOf(xin.scripts, xout)
    /\ UNCHANGED <<shellVars, routerVars, xin, evalVars, logVars, driverVars>>

NextExpand ==
    \/ BeginExpand
    \/ ExpandStep

SpecExpand == InitExpand /\ [][NextExpand]_vars

\* an expansion that has not returned or raised: NextExpand is enabled, and
\* its step changes xout
Busy == xout = Idle \/ xout.kind = "expanding"

\* _expand_script_lines is sequential code that runs until it returns or
\* raises: an expansion that can take a step takes it.  This is weak
\* fairness of NextExpand, with ENABLED <<NextExpand>>_vars written as Busy.
SpecExpandLive == SpecExpand /\ ([]<>(~Busy) \/ []<><<NextExpand>>_vars)

\* ---------------------------------------------------------------------------
\* script run on bounded scripts
\* ---------------------------------------------------------------------------
\* the tokens onecmd parses from a line: ';' set apart by spaces, then
\* shlex.split; a word of one atom is that atom (the lines of RunInputs have
\* no other words)
CommandTokens(line) ==
    LET words == ShlexSplit(Replace(line, ";", <<" ", ";", " ">>))
    IN [i \in 1..Len(words) |-> words[i][1]]

TickEvent == [ev |-> "tick", line |-> <<>>]
OnecmdEvent(line) == [ev |-> "onecmd", line |-> line]

\* where the dispatch loop of `script run` is: idx is the next expanded line,
\* events the calls made so far, ret the value returned
RunState(kind, idx, events, ret) ==
    [kind |-> kind, idx |-> idx, events |-> events, ret |-> ret]

\* a dispatch loop that goes on after a line asked to leave the shell
RunScriptLineNoStop(reg, expanded, rs) ==
    IF rs.idx > Len(expanded) THEN [rs EXCEPT !.kind = "returned"]
    ELSE LET line == Strip(expanded[rs.idx])
         IN IF IsBlankOrComment(line) THEN [rs EXCEPT !.idx = @ + 1]
            ELSE RunState("running", rs.idx + 1,
                          rs.events \o <<TickEvent, OnecmdEvent(line)>>,
                          rs.ret \/ Onecmd(reg, None, CommandTokens(line)).stop)

\* one turn of `for raw_line in expanded:` in do_script, or its return False
\* once the lines are used up
RunScriptLine(reg, expanded, rs) ==
    IF rs.idx > Len(expanded) THEN [rs EXCEPT !.kind = "returned"]
    ELSE LET line == Strip(expanded[rs.idx])
         IN IF IsBlankOrComment(line) THEN [rs EXCEPT !.idx = @ + 1]
            ELSE IF Onecmd(reg, None, CommandTokens(line)).stop
                 THEN RunState("returned", rs.idx,
                               rs.events \o <<TickEvent, OnecmdEvent(line)>>, TRUE)
                 ELSE RunState("running", rs.idx + 1,
                               rs.events \o <<TickEvent, OnecmdEvent(line)>>, FALSE)

RunLines ==
    { <<"list">>, <<"status">>, <<"exit">>, <<"${x}">>, <<"repeat", " ", "2">>, <<"end">> }

\* the tokens after `script run <name>`
RunArgs ==
    { <<>>, << <<"x", "=">> >>, << <<"x", "=", "exit">> >>, << <<"x", "=", "list">> >>,
      << <<"x", "=", "#">> >>, << <<"x">>, <<"x", "=", "status">> >> }

RunInputs ==
    {[kind |-> "run", scripts |-> [n \in {"s0"} |-> lines], name |-> name, args |-> args] :
        lines \in SeqsUpTo(RunLines, MaxLines), name \in {"s0", "s1"}, args \in RunArgs}

InitRun ==
    /\ xin \in RunInputs
    /\ xout = Idle
    /\ devices \in {<<>>, Discover(<<[model |-> "E3631A", ok |-> TRUE]>>)}
    /\ selected = SelectedAfterScan(None, devices)
    /\ handlers = (devices # <<>>)
    /\ pass = NoPass
    /\ ps = "running"
    /\ cleanupDone = FALSE
    /\ visited = <<>> /\ calls = <<>> /\ reported = <<>>
    /\ shutdownPasses = 0 /\ hookCalls = 0
    /\ exitKind = "none"
    /\ RouterIdle /\ EvalIdle /\ LogIdle /\ DriverIdle

\* do_script("run <name> [k=v ...]") up to its call of _expand_script_lines:
\* an unknown name returns at once, otherwise the k=v tokens become params
ScriptRun ==
    /\ xin.kind = "run" /\ xout = Idle /\ rout = Idle
    /\ IF xin.name \notin DOMAIN xin.scripts
       THEN /\ rout' = RunState("returned", 1, <<>>, FALSE)
            /\ xout' = xout
       ELSE /\ xout' = EnterExpand(Expanding(<<>>, <<>>, <<>>, CallParams(<<>>, xin.args)),
                                   <<>>,
                                   ExpandItem(xin.scripts[xin.name],
                                              CallParams(<<>>, xin.args), 0))
            /\ rout' = rout
    /\ UNCHANGED <<shellVars, rin, xin, evalVars, logVars, driverVars>>

\* the dispatch loop of do_script, entered once the expansion has returned
ScriptDispatch ==
    /\ xin.kind = "run" /\ xout.kind = "expanded"
    /\ rout = Idle \/ rout.kind = "running"
    /\ rout' = RunScriptLine(devices, xout.out,
                             IF rout = Idle THEN RunState("running", 1, <<>>, FALSE)
                             ELSE rout)
    /\ UNCHANGED <<shellVars, rin, expandVars, evalVars, logVars, driverVars>>

NextRun ==
    \/ ScriptRun
    \/ ExpandStep
    \/ ScriptDispatch

SpecRun == InitRun /\ [][NextRun]_vars

\* ---------------------------------------------------------------------------
\* The evaluator on bounded expressions
\* ---------------------------------------------------------------------------
MaxLiteral == 4

\* the table of names: two numbers and a dictionary
EvalNames ==
    [n |-> FloatV(2, 1), k |-> IntV(3),
     m |-> DictV([x |-> IntV(5), a |-> FloatV(3, 2)])]

\* the literal that denotes a value
LiteralText(v) == Literals[CHOOSE i \in 1..Len(Literals) : Literals[i][2] = v][1]

\* how tightly the outermost construct of a tree binds
Precedence(tree) ==
    CASE tree.node = "BinOp" /\ tree.op \in {"Add", "Sub"} -> 1
      [] tree.node = "BinOp" /\ tree.op \in {"Mult", "Div", "Mod"} -> 2
      [] tree.node = "UnaryOp" -> 3
      [] tree.node = "BinOp" /\ tree.op = "Pow" -> 4
      [] OTHER -> 5

OpText(op) ==
    CASE op = "Add" -> "+" [] op = "Sub" -> "-" [] op = "Mult" -> "*"
      [] op = "Div" -> "/" [] op = "Mod" -> "%" [] op = "Pow" -> "**"
      [] op = "UAdd" -> "+" [] op = "USub" -> "-"

Parens(text) == <<"(">> \o text \o <<")">>

\* the expression text of a tree, with the parentheses the grammar needs and
\* no others
RECURSIVE Unparse(_), UnparseArgs(_)
Unparse(tree) ==
    LET Sub1(t, least) == IF Precedence(t) < least THEN Parens(Unparse(t)) ELSE Unparse(t)
    IN CASE tree.node = "Constant" -> <<LiteralText(tree.value)>>
         [] tree.node = "Name" -> <<tree.id>>
         [] tree.node = "BinOp" /\ tree.op = "Pow" ->
               Sub1(tree.left, 5) \o <<" ", "**", " ">> \o Sub1(tree.right, 3)
         [] tree.node = "BinOp" /\ tree.op # "Pow" ->
               Sub1(tree.left, Precedence(tree)) \o <<" ", OpText(tree.op), " ">>
               \o Sub1(tree.right, Precedence(tree) + 1)
         [] tree.node = "UnaryOp" -> <<OpText(tree.op)>> \o Sub1(tree.operand, 3)
         [] tree.node = "Subscript" ->
               Sub1(tree.value, 5) \o <<"[">> \o Unparse(tree.slice) \o <<"]">>
         [] tree.node = "Call" ->
               Sub1(tree.func, 5) \o <<"(">> \o UnparseArgs(tree.args) \o <<")">>

UnparseArgs(args) ==
    IF args = <<>> THEN <<>>
    ELSE IF Len(args) = 1 THEN Unparse(args[1])
    ELSE Unparse(args[1]) \o <<",", " ">> \o UnparseArgs(Tail(args))

\* operands: the literals 0..MaxLiteral, a float, the two names and a
\* subscript of the dictionary
Operands ==
    {Constant(IntV(i)) : i \in 0..MaxLiteral}
    \cup {Constant(FloatV(1, 2)), Name("n"), Name("k"),
          Subscript(Name("m"), Constant(StrV("x")))}

SmallOperands == {Constant(IntV(i)) : i \in 2..MaxLiteral}

BinaryOps == {"Add", "Sub", "Mult", "Div", "Mod", "Pow"}

\* one operator or one call over operands
SimpleTrees ==
    {BinOp(op, a, b) : op \in BinaryOps, a \in Operands, b \in Operands}
    \cup {UnaryOp(op, a) : op \in {"UAdd", "USub"}, a \in Operands}
    \cup {Call(Name(f), <<a>>) : f \in {"abs", "round"},
              a \in Operands \cup {UnaryOp("USub", b) : b \in Operands}}
    \cup {Call(Name(f), <<a, b>>) : f \in {"min", "max"}, a \in Operands, b \in Operands}

\* two operators, grouped to the left and to the right, and a sign with a
\* power on either side of it
NestedTrees ==
    {BinOp(o1, BinOp(o2, a, b), c) :
        o1 \in BinaryOps, o2 \in BinaryOps,
        a \in SmallOperands, b \in SmallOperands, c \in SmallOperands}
    \cup {BinOp(o1, a, BinOp(o2, b, c)) :
        o1 \in BinaryOps, o2 \in BinaryOps,
        a \in SmallOperands, b \in SmallOperands, c \in SmallOperands}
    \cup {UnaryOp("USub", BinOp("Pow", a, b)) : a \in SmallOperands, b \in SmallOperands}
    \cup {BinOp("Pow", UnaryOp("USub", a), b) : a \in SmallOperands, b \in SmallOperands}
    \cup {BinOp("Pow", a, UnaryOp("USub", b)) : a \in SmallOperands, b \in SmallOperands}
    \cup {Call(Name("round"), <<BinOp("Div", a, b)>>) : a \in Operands, b \in SmallOperands}

ArithInputs ==
    {[kind |-> "arith", tree |-> t, expr |-> Unparse(t), names |-> EvalNames] :
        t \in Operands \cup SimpleTrees \cup NestedTrees}

\* expressions holding a construct the evaluator has no case for
Disallowed ==
    { [construct |-> "attribute",     text |-> <<"m", ".", "x">>],
      [construct |-> "attribute",     text |-> <<"n", ".", "real">>],
      [construct |-> "call",          text |-> <<"__import__", "(", "\"os\"", ")">>],
      [construct |-> "call",          text |-> <<"q", "(", "1", ")">>],
      [construct |-> "call",          text |-> <<"n", "(", "1", ")">>],
      [construct |-> "comprehension", text |-> <<"[", "i", " ", "for", " ", "i", " ", "in", " ", "m", "]">>],
      [construct |-> "comparison",    text |-> <<"1", " ", "<", " ", "2">>],
      [construct |-> "comparison",    text |-> <<"n", " ", "==", " ", "2">>],
      [construct |-> "boolean",       text |-> <<"1", " ", "and", " ", "2">>],
      [construct |-> "boolean",       text |-> <<"1", " ", "or", " ", "2">>],
      [construct |-> "boolean",       text |-> <<"not", " ", "1">>],
      [construct |-> "name",          text |-> <<"q">>],
      [construct |-> "string",        text |-> <<"'a'">>],
      [construct |-> "string",        text |-> <<"\"os\"">>],
      [construct |-> "bool",          text |-> <<"True">>],
      [construct |-> "bool",          text |-> <<"False">>],
      [construct |-> "none",          text |-> <<"None">>] }

\* where the construct stands: alone, or as an operand or argument
Contexts == {"alone", "sum", "product", "negated", "argument", "second"}

InContext(c, text) ==
    CASE c = "alone"    -> text
      [] c = "sum"      -> <<"1", " ", "+", " ">> \o Parens(text)
      [] c = "product"  -> Parens(text) \o <<" ", "*", " ", "2">>
      [] c = "negated"  -> <<"-">> \o Parens(text)
      [] c = "argument" -> <<"abs">> \o Parens(text)
      [] c = "second"   -> <<"max", "(", "1", ",", " ">> \o text \o <<")">>

RejectInputs ==
    {[kind |-> "reject", construct |-> d.construct, context |-> c,
      expr |-> InContext(c, d.text), names |-> EvalNames] :
        d \in Disallowed, c \in Contexts}

EvalInputs == ArithInputs \cup RejectInputs

InitEval ==
    /\ ein \in EvalInputs
    /\ eout = Idle
    /\ devices = <<>>
    /\ selected = None
    /\ handlers = FALSE
    /\ pass = NoPass
    /\ ps = "running"
    /\ cleanupDone = FALSE
    /\ visited = <<>> /\ calls = <<>> /\ reported = <<>>
    /\ shutdownPasses = 0 /\ hookCalls = 0
    /\ exitKind = "none"
    /\ RouterIdle /\ ExpandIdle /\ LogIdle /\ DriverIdle

\* _safe_eval(expr, names)
ApplyEval ==
    /\ ein # Idle /\ eout = Idle
    /\ eout' = SafeEval(ein.expr, ein.names)
    /\ UNCHANGED <<shellVars, routerVars, expandVars, ein, logVars, driverVars>>

NextEval == ApplyEval

SpecEval == InitEval /\ [][NextEval]_vars

\* ---------------------------------------------------------------------------
\* The measurement log under store, calc and log commands
\* ---------------------------------------------------------------------------
MaxLog == 2

StoreLabels == {"x", "y"}

\* the values an instrument returns
StoreValues == {FloatV(1, 1), FloatV(5, 2)}

\* command lines of calc: a label, an expression, and a unit or none
CalcExprs ==
    { <<"m", "[", "\"", "x", "\"", "]">>,
      <<"m", "[", "\"", "x", "\"", "]", " ", "+", " ", "m", "[", "\"", "y", "\"", "]">>,
      <<"last", " ", "*", " ", "2">>,
      <<"m", "[", "\"", "x", "\"", "]", " ", "/", " ", "0">>,
      <<"q">>,
      <<"(", "last">>,
      <<"[", "last", "]">>,
      <<>> }

CalcLines ==
    {<<label, " ">> \o expr : label \in {"r", "x"}, expr \in CalcExprs}
    \cup {<<"r", " ", "last", " ", "unit", "=", "V">>}

InitLog ==
    /\ measurements = <<>>
    /\ lcmd = Idle
    /\ devices = <<>>
    /\ selected = None
    /\ handlers = FALSE
    /\ pass = NoPass
    /\ ps = "running"
    /\ cleanupDone = FALSE
    /\ visited = <<>> /\ calls = <<>> /\ reported = <<>>
    /\ shutdownPasses = 0 /\ hookCalls = 0
    /\ exitKind = "none"
    /\ RouterIdle /\ ExpandIdle /\ EvalIdle /\ DriverIdle

LogUnchanged == UNCHANGED <<shellVars, routerVars, expandVars, evalVars, driverVars>>

\* dmm read_store <label> unit=V (psu meas_store and scope measure_store
\* record the same way): the reading is recorded once the instrument has
\* returned it; a command that fails before that records nothing.  Up to
\* MaxLog readings are stored, and calc may add one record to those.
DoStore ==
    /\ Len(measurements) < MaxLog
    /\ \E label \in StoreLabels, value \in StoreValues, returned \in BOOLEAN :
            /\ measurements' = IF returned
                               THEN RecordMeasurement(measurements, label, value, <<"V">>,
                                                      "dmm.read")
                               ELSE measurements
            /\ lcmd' = [kind |-> "store", ok |-> returned, label |-> label, value |-> value]
    /\ LogUnchanged

\* calc <label> <expr> [unit=]
DoCalc ==
    /\ Len(measurements) <= MaxLog
    /\ \E arg \in CalcLines :
          LET c == Calc(measurements, arg) IN
          /\ measurements' = c.log
          /\ lcmd' = [f \in (DOMAIN c \ {"log"}) \cup {"arg"} |->
                          IF f = "arg" THEN arg ELSE c[f]]
    /\ LogUnchanged

\* log clear
DoLogClear ==
    /\ measurements' = <<>>
    /\ lcmd' = [kind |-> "clear"]
    /\ LogUnchanged

\* log print, log save <path>: the records are read, not changed
DoLogRead ==
    /\ \E kind \in {"print", "save"} : lcmd' = [kind |-> kind]
    /\ UNCHANGED measurements
    /\ LogUnchanged

NextLog ==
    \/ DoStore
    \/ DoCalc
    \/ DoLogClear
    \/ DoLogRead

SpecLog == InitLog /\ [][NextLog]_vars

\* ---------------------------------------------------------------------------
\* Device commands applied to bounded inputs: state <dev> <state> and
\* awg chan <n> on|off
\* ---------------------------------------------------------------------------
\* a driver call of do_state: its text and the attribute it looks up
DevCall(m, attr) == [m |-> m, attr |-> attr]

\* the per-device branch of do_state: the calls it makes on the device, by
\* the prefix of the name and the state word
DeviceStatePlan(name, state) ==
    IF StartsWith(name, "psu") THEN
        CASE state \in {"safe", "off"} ->
                <<DevCall("disable_all_channels", "disable_all_channels")>>
          [] state = "on"    -> <<DevCall("enable_output(True)", "enable_output")>>
          [] state = "reset" -> <<DevCall("reset", "reset")>>
          [] OTHER -> <<>>
    ELSE IF IsAwgName(name) THEN
        CASE state \in {"safe", "off"} ->
                <<DevCall("disable_all_channels", "disable_all_channels")>>
          [] state = "on"    -> <<DevCall("enable_output(1,True)", "enable_output"),
                                  DevCall("enable_output(2,True)", "enable_output")>>
          [] state = "reset" -> <<DevCall("reset", "reset")>>
          [] OTHER -> <<>>
    ELSE IF StartsWith(name, "scope") THEN
        CASE state \in {"safe", "off"} ->
                <<DevCall("disable_all_channels", "disable_all_channels")>>
          [] state = "on"    -> <<DevCall("enable_all_channels", "enable_all_channels")>>
          [] state = "reset" -> <<DevCall("reset", "reset")>>
          [] OTHER -> <<>>
    ELSE IF StartsWith(name, "dmm") THEN
        IF state \in {"safe", "reset"} THEN <<DevCall("reset", "reset")>> ELSE <<>>
    ELSE <<>>

\* the calls of a plan that reach the driver: looking up a method the driver
\* does not have raises AttributeError, which ends the try block
RECURSIVE Reaching(_, _)
Reaching(plan, cls) ==
    IF plan = <<>> \/ ~HasAttr(cls, Head(plan).attr) THEN <<>>
    ELSE <<Head(plan).m>> \o Reaching(Tail(plan), cls)

\* do_state(arg) with a device name: _get_device, then the per-device branch.
\* No driver call raises.
DeviceState(reg, name, state) ==
    IF GetDevice(reg, name) = None
    THEN [kind |-> "state", target |-> None, calls |-> <<>>, error |-> FALSE]
    ELSE [kind |-> "state", target |-> name,
          calls |-> Reaching(DeviceStatePlan(name, state), ClsOf(name, reg)),
          error |-> Len(Reaching(DeviceStatePlan(name, state), ClsOf(name, reg)))
                        < Len(DeviceStatePlan(name, state))]

\* <type> state <state>: the handler resolves its device and hands
\* "<name> <state>" to do_state
TypeState(reg, type, state) ==
    IF ResolveDeviceType(reg, type, None) = None
    THEN [kind |-> "state", target |-> None, calls |-> <<>>, error |-> FALSE]
    ELSE DeviceState(reg, ResolveDeviceType(reg, type, None), state)

\* the calls the loop of the bulk operation makes for one device when no
\* driver call raises
BulkCalls(op, name, cls) == [i \in 1..Len(Plan(op, name, cls)) |-> Plan(op, name, cls)[i].m]

StateWords == {"safe", "off", "on", "reset"}

StateInputs ==
    {[kind |-> "state", reg |-> reg, name |-> name, state |-> state] :
        reg \in RouterRegs \ {<<>>},
        name \in DeviceTypes \cup {"psu1", "awg2", "scope1", "dmm2", "dds", "nosuch"},
        state \in StateWords}
    \cup
    {[kind |-> "type", reg |-> reg, name |-> type, state |-> state] :
        reg \in RouterRegs \ {<<>>}, type \in DeviceTypes, state \in StateWords}

\* the outputs of a two-channel generator: channel -> enabled
Outputs(ch1, ch2) == <<ch1, ch2>>

\* JDS6600_Generator.enable_output(ch1, ch2): one command writes both
\* outputs, each from the truth value of its argument (None is false)
EnableBoth(ch1, ch2) == Outputs(ch1 = "True", ch2 = "True")

\* what dev.enable_output does to the outputs for the call do_awg makes for
\* `chan`: keywords ch1=, ch2= on a JDS6600, (channel, state) on the others
EnableOutput(cls, outputs, channel, state) ==
    IF cls = "JDS6600_Generator"
    THEN EnableBoth(IF channel = 1 THEN (IF state THEN "True" ELSE "False") ELSE None,
                    IF channel = 2 THEN (IF state THEN "True" ELSE "False") ELSE None)
    ELSE [outputs EXCEPT ![channel] = state]

\* channel_str in ("ch1", "1") / ("ch2", "2"), 0 for any other word
ChannelOf(word) ==
    CASE word \in {"ch1", "1"} -> 1
      [] word \in {"ch2", "2"} -> 2
      [] OTHER -> 0

\* do_awg("chan <word> <onoff>") on a registry whose generators have the
\* outputs given: the device it acts on and the outputs afterwards
AwgChan(reg, outputs, word, onoff) ==
    IF ResolveDeviceType(reg, "awg", None) = None \/ ChannelOf(word) = 0
    THEN [kind |-> "chan", target |-> None, outputs |-> outputs]
    ELSE [kind |-> "chan", target |-> ResolveDeviceType(reg, "awg", None),
          outputs |-> EnableOutput(ClsOf(ResolveDeviceType(reg, "awg", None), reg),
                                   outputs, ChannelOf(word), onoff = "on")]

ChanInputs ==
    {[kind |-> "chan", reg |-> reg, outputs |-> Outputs(ch1, ch2), word |-> word,
      onoff |-> onoff] :
        reg \in RouterRegs \ {<<>>}, ch1 \in BOOLEAN, ch2 \in BOOLEAN,
        word \in {"1", "2", "ch1", "ch2", "3"}, onoff \in {"on", "off"}}

\* benches of identified resources, each of whose drivers may fail to connect
ScanInputs ==
    {[kind |-> "scan", reg |-> <<>>, bench |-> b] :
        b \in SeqsUpTo({[model |-> m, ok |-> ok] :
                           m \in {"E3631A", "MPS-6010H-1C", "JDS6600", "34401A"},
                           ok \in BOOLEAN}, MaxBench)}

InitDriver ==
    /\ din \in StateInputs \cup ChanInputs \cup ScanInputs
    /\ dout = Idle
    /\ devices = din.reg
    /\ selected = SelectedAfterScan(None, din.reg)
    /\ handlers = (din.reg # <<>>)
    /\ pass = NoPass
    /\ ps = "running"
    /\ cleanupDone = FALSE
    /\ visited = <<>> /\ calls = <<>> /\ reported = <<>>
    /\ shutdownPasses = 0 /\ hookCalls = 0
    /\ exitKind = "none"
    /\ RouterIdle /\ ExpandIdle /\ EvalIdle /\ LogIdle

DriverUnchanged == UNCHANGED <<shellVars, routerVars, expandVars, evalVars, logVars, din>>

\* state <dev> <state>
ApplyDeviceState ==
    /\ dout = Idle /\ din.kind = "state"
    /\ dout' = DeviceState(din.reg, din.name, din.state)
    /\ DriverUnchanged

\* psu|awg|scope|dmm state <state>
ApplyTypeState ==
    /\ dout = Idle /\ din.kind = "type"
    /\ dout' = TypeState(din.reg, din.name, din.state)
    /\ DriverUnchanged

\* awg chan <word> on|off
ApplyAwgChan ==
    /\ dout = Idle /\ din.kind = "chan"
    /\ dout' = AwgChan(din.reg, din.outputs, din.word, din.onoff)
    /\ DriverUnchanged

\* InstrumentDiscovery.scan over the resources of a bench
ApplyScan ==
    /\ dout = Idle /\ din.kind = "scan"
    /\ dout' = [kind |-> "scanned", reg |-> Discover(din.bench)]
    /\ DriverUnchanged

NextDriver ==
    \/ ApplyDeviceState
    \/ ApplyTypeState
    \/ ApplyAwgChan
    \/ ApplyScan

SpecDriver == InitDriver /\ [][NextDriver]_vars

\* ===========================================================================
\* Properties
\* ===========================================================================

\* C2: the shutdown routine starts its safing pass at most once per process,
\* and an invocation of either hook that finds _cleanup_done set starts no
\* pass and issues no driver call.
C2_ShutdownIdempotent ==
    [][/\ shutdownPasses' <= 1
       /\ (cleanupDone /\ hookCalls' # hookCalls) =>
            /\ shutdownPasses' = shutdownPasses
            /\ calls' = calls
            /\ visited' = visited
            /\ pass' = pass]_vars

\* a second hook invocation happened after a pass that issued driver calls
C2_Witness == hookCalls >= 2 /\ shutdownPasses = 1 /\ calls # <<>>

C4_ShutdownBeforeExit ==
    (ps = "terminated" /\ devices # <<>>) => cleanupDone

\* C5: the selected-device pointer is None or a key of the registry.
C5_SelectedInRegistry == selected = None \/ InReg(selected, devices)

\* a registry name belongs to a requested bare type: <type><digits>, or the
\* legacy key dds for type awg
C6_Matches(name, type) == BaseType(name) = type \/ (type = "awg" /\ name = "dds")

C6_Matching == {n \in Range(Names(devices)) : C6_Matches(n, rin.type)}

\* C6: a bare type request with no explicit device name resolves to the one
\* matching registry entry when there is exactly one, and to nothing, with
\* the handler touching no device, when there is none or several.
C6_ResolveFailsClosed ==
    (rout.kind = "resolved" /\ rin.ov = None) =>
        /\ Cardinality(C6_Matching) = 1 =>
                rout.name \in C6_Matching /\ rout.target = rout.name
        /\ Cardinality(C6_Matching) # 1 =>
                rout.name = None /\ rout.target = None

\* an ambiguous bare request was resolved to nothing
C6_Witness ==
    /\ rout.kind = "resolved" /\ rin.ov = None
    /\ Cardinality(C6_Matching) >= 2
    /\ rout.target = None

C7_AwgNamed == {n \in Range(Names(devices)) : PatternMatch("awg", n)}

\* C7: a bare awg request resolves to dds when dds is registered and no
\* awg-named entry is; when awg-named entries exist, dds is not a candidate,
\* so the request resolves among the awg-named entries alone.
C7_LegacyAliasOnlyWithoutAwg ==
    (rout.kind = "resolved" /\ rin.type = "awg" /\ rin.ov = None) =>
        /\ (C7_AwgNamed = {} /\ InReg("dds", devices)) => rout.name = "dds"
        /\ Cardinality(C7_AwgNamed) = 1 => rout.name \in C7_AwgNamed
        /\ Cardinality(C7_AwgNamed) > 1 => rout.name = None

C8_Cmds == SelectSeq(rout.log, LAMBDA e : e.ev = "cmd")

\* C8: a psu/awg/scope command holding the token all, whose device has the
\* non-empty channel list L, is re-issued once per channel of L, in
\* ascending channel order, with the token replaced by the channel; the line
\* holding all is not dispatched.
C8_FanOut ==
    rout.kind = "single" =>
        LET tokens  == rin.line
            head    == Lower(tokens[1])
            base    == BaseType(head)
            all_idx == FirstIn([i \in 1..Len(tokens) |-> Lower(tokens[i])], {"all"})
            dev     == FanoutDevice(devices, None, head, base)
            L       == ChannelsForDevice(ClsOf(dev, devices), base)
        IN (base \in {"psu", "awg", "scope"} /\ all_idx # 0 /\ dev # None /\ L # <<>>) =>
            /\ Len(C8_Cmds) = Len(L)
            /\ \A i \in 1..Len(L) :
                    /\ C8_Cmds[i].line = [tokens EXCEPT ![all_idx] = Str(L[i])]
                    /\ C8_Cmds[i].line # tokens
            /\ \A i, j \in 1..Len(L) : i < j => KeyLess(L[i], L[j])
            /\ ~rout.stop

\* a command was fanned out over four channels
C8_Witness ==
    /\ rout.kind = "single"
    /\ rin.line = <<"scope", "chan", "all", "on">>
    /\ Len(C8_Cmds) = 4
    /\ C8_Cmds[4].line = <<"scope", "chan", "4", "on">>

\* the command lines handed to _onecmd_single, in order
Singles == LET evs == SelectSeq(rout.log, LAMBDA e : e.ev = "single")
           IN [i \in 1..Len(evs) |-> evs[i].line]

\* a chunk whose dispatch asks to leave the shell
StopsShell(chunk) ==
    \/ chunk[1] \in {"exit", "quit", "EOF"}
    \/ /\ Len(chunk) >= 3 /\ chunk[1] = "repeat" /\ chunk[2] \in IntTokens
       /\ IntOf(chunk[2]) > 0 /\ chunk[3] \in {"exit", "quit", "EOF"}

\* the chunks up to and including the first that asks to leave the shell
CutAtStop(chunks) ==
    LET k == FirstIn([i \in 1..Len(chunks) |-> StopsShell(chunks[i])], {TRUE})
    IN IF k = 0 THEN chunks ELSE SubSeq(chunks, 1, k)

RECURSIVE Times(_, _)
Times(n, chunks) == IF n <= 0 THEN <<>> ELSE chunks \o Times(n - 1, chunks)

\* the inline repeat construct of a line: where it starts, its count, body
\* and remainder; at = 0 when the line has none
InlineRepeat(tokens) ==
    LET n     == Len(tokens)
        at    == IF "repeatall" \in Range(tokens) THEN FirstIn(tokens, {"repeatall"})
                 ELSE FirstIn(tokens, {"repeat"})
        after == SubSeq(tokens, at + 2, n)
        close == IF at # 0 /\ "end" \in Range(after) THEN at + 1 + FirstIn(after, {"end"})
                 ELSE 0
        valid == /\ at # 0 /\ at + 1 <= n /\ tokens[at + 1] \in IntTokens
                 /\ (close # 0 \/ tokens[at] = "repeatall")
    IN IF ~valid THEN [at |-> 0, count |-> 0, body |-> <<>>, rem |-> <<>>]
       ELSE [at    |-> at,
             count |-> IntOf(tokens[at + 1]),
             body  |-> IF close # 0 THEN SubSeq(tokens, at + 2, close - 1) ELSE after,
             rem   |-> IF close # 0 THEN SubSeq(tokens, close + 1, n) ELSE <<>>]

\* the chunks a line dispatches, in order: those before the repeat construct,
\* the body's chunks once per repetition, then those after it
ExpectedChunks(tokens) ==
    LET r == InlineRepeat(tokens)
    IN IF r.at = 0 THEN Chunks(tokens)
       ELSE Chunks(SubSeq(tokens, 1, r.at - 1))
            \o Times(r.count, Chunks(r.body)) \o Chunks(r.rem)

\* C9: for a line holding ;, with or without an inline repeat block, every
\* non-empty chunk is dispatched once, left to right (the chunks of a repeat
\* body once per repetition), up to the first chunk that signals shell exit,
\* and that signal is the line's result.
C9_ChainDispatch ==
    (rout.kind = "line" /\ ";" \in Range(rin.line)) =>
        /\ Singles = CutAtStop(ExpectedChunks(rin.line))
        /\ rout.stop = (\E i \in 1..Len(Singles) : StopsShell(Singles[i]))

\* C10: repeat N <body> end <remainder> runs the chunks of the body N times
\* in order, then the remainder once; a body run that signals shell exit ends
\* the repetition and the remainder is not run.
C10_InlineRepeat ==
    LET r == InlineRepeat(rin.line)
    IN (rout.kind = "line" /\ r.at = 1 /\ rin.line[1] = "repeat") =>
        /\ Singles = CutAtStop(Times(r.count, Chunks(r.body)) \o Chunks(r.rem))
        /\ rout.stop = (\E i \in 1..Len(Singles) : StopsShell(Singles[i]))

\* a body stopped the shell on its first run: later runs and the remainder
\* were not dispatched
C10_Witness ==
    /\ rout.kind = "line"
    /\ rin.line = <<"repeat", "2", "list", ";", "exit", "end", "list">>
    /\ Singles = <<<<"list">>, <<"exit">>>>
    /\ rout.stop

\* the expected expansion of a chain entered at script e (1-based index) of
\* scripts 1..n+1: the literal lines of the scripts at call depth 0..10
NestDepth == xin.n + 1 - ScriptIndex(xin.entry)

Reached == IF NestDepth <= MaxCallDepth THEN NestDepth ELSE MaxCallDepth

HasPre == <<PreWords[1]>> \in Range(xin.scripts[ScriptNames[1]])
HasPost == <<PostWords[1]>> \in Range(xin.scripts[ScriptNames[1]])

ChainExpected ==
    LET e == ScriptIndex(xin.entry)
    IN (IF HasPre THEN [d \in 1..(Reached + 1) |-> <<PreWords[e + d - 1]>>] ELSE <<>>)
       \o (IF HasPost THEN [d \in 1..(Reached + 1) |-> <<PostWords[e + Reached + 1 - d]>>]
           ELSE <<>>)

Expanded == xout # Idle /\ xout.kind = "expanded"

\* C1: no call of the expander runs deeper than 10 nested calls.  A chain of
\* nested calls up to 10 deep expands in full and reports nothing; a deeper
\* chain expands the scripts at call depth 0..10, its 11th nested call
\* contributes no line and is reported as one depth error, and the lines of
\* its callers stay in the expansion.
C1_CallDepthLimit ==
    /\ xout # Idle =>
          /\ Len(xout.stack) <= MaxCallDepth + 1
          /\ \A i \in 1..Len(xout.stack) : xout.stack[i].depth <= MaxCallDepth
    /\ (Expanded /\ xin.kind = "chain") =>
          /\ xout.out = ChainExpected
          /\ xout.errs = IF NestDepth > MaxCallDepth THEN <<"depth">> ELSE <<>>

C1_Witness ==
    /\ Expanded /\ xin.kind = "chain"
    /\ NestDepth = MaxCallDepth + 1
    /\ HasPre /\ HasPost
    /\ Len(xout.out) = 2 * (MaxCallDepth + 1)
    /\ xout.errs = <<"depth">>

\* n copies of a sequence of lines
RECURSIVE Copies(_, _)
Copies(n, lines) == IF n <= 0 THEN <<>> ELSE lines \o Copies(n - 1, lines)

\* what a read of x before the block's set shows: the outer value, or the
\* reference itself when x is unbound
C11_Outer == IF xin.a = None THEN <<"${x}">> ELSE <<xin.a>>

C11_EnvBefore == IF xin.a = None THEN <<>> ELSE <<[k |-> <<"x">>, v |-> <<xin.a>>]>>

\* C11: repeat n expands its block n times, each time from a copy of the
\* environment at the loop: every iteration first reads the outer x, the
\* line after the loop reads the outer x, and the environment after the
\* script holds the bindings it held before the loop.
C11_RepeatFreshCopy ==
    (Expanded /\ xin.kind = "repeat") =>
        /\ xout.out = Copies(xin.n, <<Echo(C11_Outer), Echo(<<xin.b>>)>>)
                       \o <<Echo(C11_Outer)>>
        /\ xout.env = C11_EnvBefore
        /\ xout.errs = <<>>

C11_Witness ==
    /\ Expanded /\ xin.kind = "repeat"
    /\ xin.n >= 2 /\ xin.a # None
    /\ Len(xout.out) = 2 * xin.n + 1
    /\ xout.env = <<[k |-> <<"x">>, v |-> <<xin.a>>]>>

\* C12: the callee reads the caller's bindings with the k=v pairs laid over
\* them (x= replaces the caller's x inside the callee, z= adds z), and
\* neither the pairs nor the callee's set lines change what the caller reads
\* after the call or the caller's environment.
C12_CallChildEnvironment ==
    (Expanded /\ xin.kind = "call") =>
        /\ xout.out =
              << Echo(<<IF xin.px = None THEN xin.a ELSE xin.px, " ", "1", " ",
                        IF xin.pz = None THEN "${z}" ELSE xin.pz>>),
                 Echo(<<"3", " ", "4">>),
                 Echo(<<xin.a, " ", "1", " ", "${z}">>) >>
        /\ xout.env = <<[k |-> <<"x">>, v |-> <<xin.a>>], [k |-> <<"y">>, v |-> <<"1">>]>>
        /\ xout.errs = <<>>

C12_Witness ==
    /\ Expanded /\ xin.kind = "call"
    /\ xin.px # None /\ xin.pz # None
    /\ xout.out[1] = Echo(<<xin.px, " ", "1", " ", xin.pz>>)
    /\ xout.out[3] = Echo(<<xin.a, " ", "1", " ", "${z}">>)

\* the values of the loop whose arity is that of the variable list a,b
WellFormed(vals) == SelectSeq(vals, LAMBDA v : Len(v) = 2)

Mismatching(vals) == SelectSeq(vals, LAMBDA v : Len(v) # 2)

\* what reading the loop variables after the loop shows
C13_After ==
    IF xin.kind = "formulti" THEN <<"${a}", "-", "${b}">>
    ELSE Echo(<<IF xin.outer = None THEN "${i}" ELSE xin.outer>>)

\* C13: a for whose values all have the arity of its variable list expands
\* its block once per value in the order written, the variables bound to
\* that value (pairwise, for a list), and leaves the variables as they were
\* before the loop: echo 1, echo 2, echo 3 and 1-2, 3-4.
C13_ForExpansion ==
    (/\ Expanded
     /\ \/ xin.kind = "for"
        \/ xin.kind = "formulti" /\ Mismatching(xin.vals) = <<>>) =>
        /\ xout.out =
              [j \in 1..Len(xin.vals) |->
                  IF xin.kind = "for" THEN Echo(<<xin.vals[j][1]>>)
                  ELSE <<xin.vals[j][1], "-", xin.vals[j][2]>>]
              \o <<C13_After>>
        /\ xout.env = IF xin.outer = None THEN <<>>
                      ELSE <<[k |-> <<"i">>, v |-> <<xin.outer>>]>>
        /\ xout.errs = <<>>

C13_Witness ==
    /\ Expanded /\ xin.kind = "formulti"
    /\ xin.vals = <<<<"1", "2">>, <<"3", "4">>>>
    /\ xout.out = << <<"1", "-", "2">>, <<"3", "-", "4">>, <<"${a}", "-", "${b}">> >>

\* C14: in a for over the list a,b, every value whose arity differs is
\* reported and skipped, and the block is expanded for every other value,
\* those before and those after it.
C14_ArityMismatchSkipsValue ==
    (Expanded /\ xin.kind = "formulti") =>
        /\ xout.out =
              [j \in 1..Len(WellFormed(xin.vals)) |->
                  <<WellFormed(xin.vals)[j][1], "-", WellFormed(xin.vals)[j][2]>>]
              \o <<C13_After>>
        /\ xout.errs = [j \in 1..Len(Mismatching(xin.vals)) |-> "arity"]

\* the lines of the script that are neither blank nor comments, without
\* their surrounding whitespace
C15_Remaining ==
    LET kept == SelectSeq(xin.src, LAMBDA l : l.class \notin {"blank", "comment"})
    IN [j \in 1..Len(kept) |-> kept[j].core]

C16_EnvBefore == IF xin.pre = None THEN <<>> ELSE <<[k |-> <<"v">>, v |-> <<xin.pre>>]>>

C16_Text == SubstituteVars(xin.raw, C16_EnvBefore)

C16_Result == SafeEval(C16_Text, NumVars(C16_EnvBefore))

C16_Bound ==
    IF C16_Result.ok /\ C16_Result.val.t \in {"int", "float"}
    THEN StrOf(C16_Result.val)
    ELSE C16_Text

\* C16: set emits no line and binds x in the environment of the script: to
\* the text of the number the substituted text evaluates to over the
\* variables holding numbers, and to the substituted text itself whenever
\* it does not evaluate to a number.
C16_SetBinding ==
    (Expanded /\ xin.kind = "set") =>
        /\ xout.out = <<Echo(C16_Bound)>>
        /\ xout.env = Bind(C16_EnvBefore, <<"x">>, C16_Bound)
        /\ xout.errs = <<>>

\* C17: a script line whose quoting is malformed is reported and skipped:
\* the expansion run by `script run` does not raise out of the command, and
\* the commands around the malformed line are expanded.
C17_ParseErrorContained ==
    (xout # Idle /\ xin.kind = "quote") =>
        /\ xout.kind # "raised"
        /\ (Expanded /\ ~xin.closed) =>
              /\ xout.out = <<Echo(<<"1">>), Echo(<<"2">>)>>
              /\ xout.errs # <<>>

\* Ordinary arithmetic on fractions <<n, d>> with d > 0; <<0, 0>> stands for
\* no value (a division by zero, a power outside MaxPower and MaxBase or
\* with a fractional exponent).
Q(n, d) ==
    IF d = 0 THEN <<0, 0>>
    ELSE LET g == Gcd(Abs(n), Abs(d)) IN
         IF d < 0 THEN <<(0 - n) \div g, (0 - d) \div g>> ELSE <<n \div g, d \div g>>

NoValue == <<0, 0>>

QFloor(a) == a[1] \div a[2]

QPow(a, b) ==
    IF b[2] # 1 \/ Abs(b[1]) > MaxPower \/ Abs(a[1]) > MaxBase \/ a[2] > MaxBase THEN NoValue
    ELSE IF b[1] >= 0 THEN Q(Power(a[1], b[1]), Power(a[2], b[1]))
    ELSE Q(Power(a[2], 0 - b[1]), Power(a[1], 0 - b[1]))

QBinary(op, a, b) ==
    CASE op = "Add"  -> Q(a[1] * b[2] + b[1] * a[2], a[2] * b[2])
      [] op = "Sub"  -> Q(a[1] * b[2] - b[1] * a[2], a[2] * b[2])
      [] op = "Mult" -> Q(a[1] * b[1], a[2] * b[2])
      [] op = "Div"  -> Q(a[1] * b[2], a[2] * b[1])
      [] op = "Mod"  ->
            IF b[1] = 0 THEN NoValue
            ELSE LET q == QFloor(Q(a[1] * b[2], a[2] * b[1]))
                 IN Q(a[1] * b[2] - q * b[1] * a[2], a[2] * b[2])
      [] op = "Pow"  -> QPow(a, b)

\* the nearest whole number, a tie going to the even one
QRound(a) ==
    LET f  == QFloor(a)
        r2 == 2 * (a[1] - f * a[2])
    IN IF r2 < a[2] \/ (r2 = a[2] /\ f % 2 = 0) THEN <<f, 1>> ELSE <<f + 1, 1>>

QLess(a, b) == a[1] * b[2] < b[1] * a[2]

\* the value ordinary arithmetic gives a tree over the table EvalNames
RECURSIVE C18_Value(_)
C18_Value(tree) ==
    CASE tree.node = "Constant" -> <<tree.value.n, tree.value.d>>
      [] tree.node = "Name" -> <<EvalNames[tree.id].n, EvalNames[tree.id].d>>
      [] tree.node = "Subscript" ->
            LET v == EvalNames[tree.value.id].map[tree.slice.value.s] IN <<v.n, v.d>>
      [] tree.node = "UnaryOp" ->
            LET a == C18_Value(tree.operand) IN
            IF a = NoValue THEN NoValue
            ELSE IF tree.op = "USub" THEN <<0 - a[1], a[2]>> ELSE a
      [] tree.node = "BinOp" ->
            LET a == C18_Value(tree.left)
                b == C18_Value(tree.right)
            IN IF a = NoValue \/ b = NoValue THEN NoValue ELSE QBinary(tree.op, a, b)
      [] tree.node = "Call" ->
            LET a == C18_Value(tree.args[1]) IN
            IF a = NoValue THEN NoValue
            ELSE IF tree.func.id = "abs" THEN <<Abs(a[1]), a[2]>>
            ELSE IF tree.func.id = "round" THEN QRound(a)
            ELSE LET b == C18_Value(tree.args[2]) IN
                 IF b = NoValue THEN NoValue
                 ELSE IF tree.func.id = "min" THEN (IF QLess(b, a) THEN b ELSE a)
                 ELSE (IF QLess(a, b) THEN b ELSE a)

\* C18: an expression built from numeric literals, names bound to numbers,
\* + - * / % **, unary + and -, abs/min/max/round and a subscript of the
\* dictionary evaluates to the value ordinary arithmetic gives it, with the
\* standard precedence of the operators, whenever it has one.
C18_EvaluatesArithmetic ==
    (eout # Idle /\ ein.kind = "arith" /\ C18_Value(ein.tree) # NoValue) =>
        /\ eout.ok
        /\ IsNumber(eout.val)
        /\ eout.val.n * C18_Value(ein.tree)[2] = C18_Value(ein.tree)[1] * eout.val.d

\* 2 + 3 * 4 has evaluated to 14
C18_Witness ==
    /\ ein # Idle /\ ein.kind = "arith"
    /\ ein.expr = <<"2", " ", "+", " ", "3", " ", "*", " ", "4">>
    /\ eout = Ok(IntV(14))

\* C19: an expression holding an attribute access, a call of a function
\* other than abs/min/max/round, a comprehension, a comparison, a boolean
\* operator, a name outside the table or a constant that is not a number
\* (a string, a boolean, None) makes the evaluation fail: no value is
\* returned.
C19_RejectsDisallowed ==
    (eout # Idle /\ ein.kind = "reject") => ~eout.ok

\* the greatest index of a record of label l
C20_Latest(log, l) ==
    CHOOSE i \in 1..Len(log) : log[i].label = l /\ \A j \in (i + 1)..Len(log) : log[j].label # l

C20_Step ==
    LET n == Len(measurements) IN
    /\ lcmd'.kind = "clear" => measurements' = <<>>
    /\ lcmd'.kind # "clear" =>
          /\ Len(measurements') \in {n, n + 1}
          /\ SubSeq(measurements', 1, n) = measurements
    /\ (lcmd'.kind \in {"store", "calc"} /\ lcmd'.ok) =>
          /\ Len(measurements') = n + 1
          /\ measurements'[n + 1].value = lcmd'.value
    /\ (lcmd'.kind \in {"store", "calc"} /\ ~lcmd'.ok) => measurements' = measurements
    /\ (lcmd'.kind = "calc" /\ "names" \in DOMAIN lcmd') =>
          /\ DOMAIN lcmd'.names.m.map = {measurements[i].label : i \in 1..n}
          /\ \A l \in DOMAIN lcmd'.names.m.map :
                lcmd'.names.m.map[l] = measurements[C20_Latest(measurements, l)].value

\* C20: the log is an append-only sequence.  A store or calc that succeeds
\* adds one record at the end and one that fails adds none, every command
\* but log clear leaves the records already there as they are and in their
\* order, log clear empties the log, and the map calc hands the evaluator
\* gives each recorded label the value of its latest record.
C20_AppendOnlyLog == [][C20_Step]_vars

\* a calc has read a label recorded twice with different values and has
\* appended the later value
C20_Witness ==
    /\ lcmd # Idle /\ lcmd.kind = "calc" /\ lcmd.ok
    /\ Len(measurements) = 3
    /\ measurements[1].label = measurements[2].label
    /\ measurements[1].value # measurements[2].value
    /\ lcmd.names.m.map[measurements[1].label] = measurements[2].value
    /\ measurements[3].value = measurements[2].value
    /\ measurements[3].source = "calc"

\* the expression of a calc line of CalcLines, and its unit
C21_Expr(arg) ==
    IF "unit" \in Range(arg) THEN <<"last">> ELSE SubSeq(arg, 3, Len(arg))

C21_Unit(arg) == IF "unit" \in Range(arg) THEN <<"V">> ELSE <<>>

\* the failure of an expression of CalcExprs over a log with these labels, or
\* "none" when it evaluates: by the rules of the expression language
C21_Failure(expr, labels) ==
    CASE expr = <<"q">>                -> "ValueError"
      [] expr = <<"(", "last">>        -> "SyntaxError"
      [] expr = <<"[", "last", "]">>   -> "ValueError"
      [] expr[1] = "last"              -> "none"
      [] "x" \notin labels             -> "KeyError"
      [] "y" \in Range(expr) /\ "y" \notin labels -> "KeyError"
      [] "/" \in Range(expr)           -> "ZeroDivisionError"
      [] OTHER                         -> "none"

C21_Step ==
    LET n      == Len(measurements)
        arg    == lcmd'.arg
        labels == {measurements[i].label : i \in 1..n}
    IN (lcmd'.kind = "calc" /\ n > 0 /\ C21_Expr(arg) # <<>>) =>
          /\ ps' = ps
          /\ IF C21_Failure(C21_Expr(arg), labels) # "none"
             THEN /\ ~lcmd'.ok
                  /\ lcmd'.why = C21_Failure(C21_Expr(arg), labels)
                  /\ measurements' = measurements
             ELSE /\ lcmd'.ok
                  /\ Len(measurements') = n + 1
                  /\ SubSeq(measurements', 1, n) = measurements
                  /\ measurements'[n + 1] =
                        [label |-> arg[1], value |-> lcmd'.value,
                         unit |-> C21_Unit(arg), source |-> "calc"]

\* C21: a calc whose expression is rejected or fails reports the failure and
\* leaves the log and the shell as they were; a calc whose expression
\* evaluates appends exactly one record: its label, the value, its unit and
\* the source calc.
C21_CalcFailureLeavesLog == [][C21_Step]_vars

\* a calc has failed on a log with records, and the log is the one before it
C21_Witness ==
    /\ lcmd # Idle /\ lcmd.kind = "calc" /\ ~lcmd.ok
    /\ lcmd.why \in {"KeyError", "ZeroDivisionError", "ValueError", "SyntaxError"}
    /\ Len(measurements) = 1
    /\ ps = "running"

\* C22: state <dev> safe|off, and <type> state safe|off, make the driver
\* calls on the device that the bulk state safe|off makes on it, the
\* fallbacks for drivers without disable_all_channels included.
C22_PerDeviceMatchesBulk ==
    (/\ dout # Idle /\ dout.kind = "state"
     /\ din.state \in {"safe", "off"}
     /\ dout.target # None) =>
        dout.calls = BulkCalls(din.state, dout.target, ClsOf(dout.target, din.reg))

\* C30: awg chan <n> on|off sets the output of channel n and leaves the
\* output of the other channel as it was, for every generator driver.
C30_ChanLeavesOtherChannel ==
    (dout # Idle /\ dout.kind = "chan" /\ dout.target # None) =>
        /\ dout.outputs[ChannelOf(din.word)] = (din.onoff = "on")
        /\ dout.outputs[3 - ChannelOf(din.word)] = din.outputs[3 - ChannelOf(din.word)]

\* C23: once the shutdown routine has started its safing pass, the process
\* does not terminate before the pass has visited every registered device,
\* whatever further signals arrive.
C23_ShutdownPassVisitsAll ==
    (ps = "terminated" /\ pass.kind \in {"atexit", "interrupt"}) =>
        visited = Names(pass.regs)

\* the lines one pass of the outer loop yields: the body once per value,
\* then the line between the two ends
C24_Pass == Copies(xin.m, SubSeq(BodyLines, 1, xin.k))
            \o (IF xin.mid THEN <<Echo(<<"mid">>)>> ELSE <<>>)

\* C24: the block of a repeat around a for ends at the repeat's own end: the
\* for's end does not close it, the line after the matching end is expanded
\* once, the loops yield n*m*k body lines, and an end without an open block
\* is passed over without a report.
C24_BalancedBlocks ==
    (Expanded /\ xin.kind = "nest") =>
        /\ xout.out = Copies(xin.n, C24_Pass) \o <<Echo(<<"after">>)>>
        /\ Len(SelectSeq(xout.out, LAMBDA l : l \in Range(BodyLines)))
              = xin.n * xin.m * xin.k
        /\ xout.errs = <<>>

C24_Witness ==
    /\ Expanded /\ xin.kind = "nest"
    /\ xin.n = 2 /\ xin.m = 2 /\ xin.k = 2 /\ xin.mid /\ xin.stray
    /\ Len(xout.out) = 11

\* the expansion has returned or raised
C25_Done == xout # Idle /\ xout.kind \in {"expanded", "raised"}

\* the literal lines of a cycle of n + 1 scripts cut at the depth limit: the
\* lines before the calls at call depth 0..10, then those after the calls
C25_CycleExpected ==
    LET len == xin.n + 1
        top == MaxCallDepth + 1
    IN (IF HasPre THEN [d \in 1..top |-> <<PreWords[((d - 1) % len) + 1]>>] ELSE <<>>)
       \o (IF HasPost THEN [d \in 1..top |-> <<PostWords[((top - d) % len) + 1]>>]
           ELSE <<>>)

\* C25: every expansion ends, those of scripts that call themselves or one
\* another in a cycle included: the calls are cut beyond depth 10, so a
\* script of one literal line and a call of itself expands to 11 copies of
\* the line, with one report of the depth.
C25_ExpansionTerminates ==
    /\ <>C25_Done
    /\ []((Expanded /\ xin.kind = "cycle") =>
            /\ xout.out = C25_CycleExpected
            /\ xout.errs = <<"depth">>)

C25_Witness ==
    /\ Expanded /\ xin.kind = "cycle" /\ xin.n = 0
    /\ HasPre /\ ~HasPost
    /\ xout.out = Copies(11, << <<PreWords[1]>> >>)


\* C26: a command whose first token is a registered numbered device name runs
\* the handler of its base type on exactly that registry entry, however many
\* devices of the type are registered; the override is that name while the
\* handler runs and None whenever default is not inside the handler, also
\* after a handler that raised.
C26_NumberedDeviceRouting ==
    /\ rout.kind = "handler" =>
            /\ InReg(rin.line[1], devices)
            /\ rout.override = rin.line[1]
            /\ rout.handler = BaseType(rin.line[1])
            /\ rout.target = rin.line[1]
    /\ rout.kind = "default" => rout.override = None

\* awg2 was routed to do_awg with two generators registered, and the handler
\* raised
C26_Witness ==
    /\ rout.kind = "default" /\ rout.raised
    /\ rin.line[1] = "awg2" /\ rout.handler = "awg" /\ rout.target = "awg2"
    /\ Len(Candidates(devices, "awg")) >= 2


\* C27: a psu command holding the token all, whose device is an HP E3631A,
\* is re-issued exactly three times, with the token replaced by 1, 2 and 3
\* in that order; a dmm command holding all is dispatched once, unchanged.
C27_E3631AFanOut ==
    rout.kind = "single" =>
        LET tokens  == rin.line
            head    == Lower(tokens[1])
            base    == BaseType(head)
            all_idx == FirstIn([i \in 1..Len(tokens) |-> Lower(tokens[i])], {"all"})
            dev     == FanoutDevice(devices, None, head, base)
        IN /\ (base = "psu" /\ all_idx # 0 /\ dev # None
                /\ ClsOf(dev, devices) = "HP_E3631A") =>
                    /\ Len(C8_Cmds) = 3
                    /\ \A i \in 1..3 :
                          C8_Cmds[i].line =
                              [tokens EXCEPT ![all_idx] = <<"1", "2", "3">>[i]]
           /\ (base = "dmm" /\ all_idx # 0) =>
                    /\ Len(C8_Cmds) = 1
                    /\ C8_Cmds[1].line = tokens


\* the resources of a bench whose driver connected
C28_Connected == SelectSeq(din.bench, LAMBDA r : r.ok)

\* the keys of the returned registry that belong to type t
C28_Keys(t) == {n \in Range(Names(dout.reg)) : BaseType(n) = t}

\* C28: in the registry a scan returns, a type with exactly one connected
\* driver is keyed by the bare type name and a type with k >= 2 connected
\* drivers by <type>1 .. <type>k; the keys are unique and every connected
\* driver is under exactly one key.
C28_DiscoveryNaming ==
    dout.kind = "scanned" =>
        /\ Len(dout.reg) = Len(C28_Connected)
        /\ Cardinality(Range(Names(dout.reg))) = Len(dout.reg)
        /\ \A t \in DeviceTypes :
              LET k == Len(OfType(C28_Connected, t))
              IN C28_Keys(t) = IF k = 1 THEN {t}
                               ELSE {Numbered[t][i] : i \in 1..k}


\* the expanded lines, stripped
C29_Expanded == [i \in 1..Len(xout.out) |-> Strip(xout.out[i])]

\* the expanded lines that are neither blank nor comments
C29_Commands == SelectSeq(C29_Expanded, LAMBDA l : ~IsBlankOrComment(l))

\* the lines up to and including the first whose dispatch signals shell exit
C29_Cut(lines) ==
    LET k == FirstIn([i \in 1..Len(lines) |->
                         Onecmd(devices, None, CommandTokens(lines[i])).stop], {TRUE})
    IN IF k = 0 THEN lines ELSE SubSeq(lines, 1, k)

\* a polling tick and then the dispatch, for each line in order
C29_Calls(lines) == ConcatAll([i \in 1..Len(lines) |-> <<TickEvent, OnecmdEvent(lines[i])>>])

\* the dispatch loop follows the list of lines given: its calls so far are a
\* prefix of tick-then-dispatch over the lines up to the first signalling
\* exit, and all of them once it has returned, with that signal returned
C29_Follows(lines) ==
    LET expected == C29_Calls(C29_Cut(lines))
    IN /\ Len(rout.events) <= Len(expected)
       /\ rout.events = SubSeq(expected, 1, Len(rout.events))
       /\ rout.kind = "returned" =>
             /\ rout.events = expected
             /\ rout.ret = (Len(C29_Cut(lines)) < Len(lines)
                            \/ (lines # <<>> /\ Onecmd(devices, None,
                                     CommandTokens(lines[Len(lines)])).stop))

\* the expansion starts from the k=v pairs and is complete before the first
\* dispatch
C29_ExpandsFirst ==
    /\ xout # Idle =>
          \A i \in 1..Len(xout.stack) : xout.stack[i].env = CallParams(<<>>, xin.args)
    /\ (rout # Idle /\ rout.events # <<>>) => xout.kind = "expanded"

\* C29 as stated: script run expands the whole script from the k=v pairs
\* before it dispatches, then dispatches every expanded line in order with a
\* polling tick before each, up to the first line that signals shell exit,
\* and returns that signal.
C29_DispatchesEveryLine ==
    xin.kind = "run" =>
        /\ C29_ExpandsFirst
        /\ (rout # Idle /\ xout # Idle) => C29_Follows(C29_Expanded)

\* C29: script run expands the whole script from the k=v pairs before it
\* dispatches, then dispatches in order, with a polling tick before each,
\* the expanded lines that are neither blank nor comments once stripped, up
\* to the first line that signals shell exit, and returns that signal.
C29_ScriptRun ==
    xin.kind = "run" =>
        /\ C29_ExpandsFirst
        /\ (rout # Idle /\ xout # Idle) => C29_Follows(C29_Commands)
        /\ (rout # Idle /\ xout = Idle) => (rout.events = <<>> /\ ~rout.ret)

\* a run whose second line, exit by the parameter x, ended it with a third
\* line left
C29_Witness ==
    /\ xin.kind = "run" /\ rout.kind = "returned" /\ rout.ret
    /\ xin.args = << <<"x", "=", "exit">> >>
    /\ xin.scripts["s0"] = << <<"list">>, <<"${x}">>, <<"status">> >>
    /\ xout.out = << <<"list">>, <<"exit">>, <<"status">> >>
    /\ rout.events = <<TickEvent, OnecmdEvent(<<"list">>), TickEvent, OnecmdEvent(<<"exit">>)>>

====
